---- MODULE Spec2Model ----
(***************************************************************************)
(* Kindness wall (src/app.py): notes are submitted, moderated by an admin, *)
(* and aggregated into leaderboards and "top 4 + Others" chart bars.       *)
(*                                                                         *)
(* Percentages are carried in tenths of a percent (38.5% is 385): the      *)
(* code rounds every percentage to one decimal, so a tenth is the unit.    *)
(* Strings are TLA+ strings; strip() and int() are computed character by   *)
(* character.  A dict is the sequence of its <<key, value>> pairs in       *)
(* insertion order, which is the order Python iterates it in.              *)
(***************************************************************************)
EXTENDS Integers, Sequences, FiniteSets, TLC

VARIABLES
    notes,       \* table note: the rows, in id order
    sections,    \* table class_section: the rows, in id order
    teachers,    \* table teacher
    staffs,      \* table staff
    users,       \* table user
    session,     \* the browser session (cookie): a function key -> value
    now,         \* index into TimeLine of the current instant (datetime.utcnow())
    page,        \* the response to the last request
    counts_map,  \* the mapping top_four_plus_others is applied to (SpecBars)
    inflight,    \* per concurrent admin request: the section it found missing and is
                 \* about to insert, <<class_name, section_name>>, or <<>>
    running      \* the home() request that is between its queries: <<>>, or one record
                 \* of its locals counts, recent and out (compute_leaders)

vars == <<notes, sections, teachers, staffs, users, session, now, page, counts_map, inflight, running>>

----------------------------------------------------------------------------
(* Bounds of the model *)

\* note ids are allocated up to this bound
MaxNoteId == 2
\* note ids are allocated up to this bound where the leaderboards are studied
MaxLeaderNotes == 2
\* note ids are allocated up to this bound where the submitted forms are studied
MaxPosted == 2
\* number of distinct labels of a mapping given to top_four_plus_others
MaxLabels == 5
\* largest count of one label in such a mapping
MaxCount == 4
\* number of times top_four_plus_others is called on one mapping
MaxCalls == 2
\* sections are added while fewer rows than this are stored
MaxSectionRows == 7
\* number of admin requests served at the same time
MaxRequests == 2
\* accounts are registered while fewer users than this are stored
MaxUsers == 1
\* notes are posted beside a running home request while their ids do not exceed this
MaxWindowNotes == 1

----------------------------------------------------------------------------
(* Python values *)

\* None, where an integer column or a lookup result may be None
None == -1

\* truth value of an optional integer: None and 0 are falsy
Truthy(x) == x # None /\ x # 0

Max2(a, b) == IF a >= b THEN a ELSE b

Min2(a, b) == IF a <= b THEN a ELSE b

IsSpace(c) == c \in {" ", "\t", "\n", "\r"}

RECURSIVE LStrip(_)
LStrip(s) == IF Len(s) > 0 /\ IsSpace(Head(s)) THEN LStrip(Tail(s)) ELSE s

RECURSIVE RStrip(_)
RStrip(s) ==
    IF Len(s) > 0 /\ IsSpace(SubSeq(s, Len(s), Len(s)))
    THEN RStrip(SubSeq(s, 1, Len(s) - 1))
    ELSE s

\* a field read without trimming
NoStrip(s) == s

\* str.strip()
Strip(s) == RStrip(LStrip(s))

Lowercase == "abcdefghijklmnopqrstuvwxyz"

Uppercase == "ABCDEFGHIJKLMNOPQRSTUVWXYZ"

UpperChar(c) ==
    IF \E i \in 1..Len(Lowercase) : SubSeq(Lowercase, i, i) = c
    THEN LET i == CHOOSE i \in 1..Len(Lowercase) : SubSeq(Lowercase, i, i) = c
         IN  SubSeq(Uppercase, i, i)
    ELSE c

RECURSIVE Upper(_)
\* str.upper()
Upper(s) == IF Len(s) = 0 THEN "" ELSE UpperChar(SubSeq(s, 1, 1)) \o Upper(Tail(s))

LowerChar(c) ==
    IF \E i \in 1..Len(Uppercase) : SubSeq(Uppercase, i, i) = c
    THEN LET i == CHOOSE i \in 1..Len(Uppercase) : SubSeq(Uppercase, i, i) = c
         IN  SubSeq(Lowercase, i, i)
    ELSE c

RECURSIVE Lower(_)
\* str.lower()
Lower(s) == IF Len(s) = 0 THEN "" ELSE LowerChar(SubSeq(s, 1, 1)) \o Lower(Tail(s))

Digits == <<"0", "1", "2", "3", "4", "5", "6", "7", "8", "9">>

IsDigit(c) == \E i \in 1..10 : Digits[i] = c

DigitVal(c) == (CHOOSE i \in 1..10 : Digits[i] = c) - 1

RECURSIVE AllDigits(_)
AllDigits(s) == Len(s) = 0 \/ (IsDigit(Head(s)) /\ AllDigits(Tail(s)))

RECURSIVE DigitsVal(_, _)
DigitsVal(s, acc) ==
    IF Len(s) = 0 THEN acc ELSE DigitsVal(Tail(s), acc * 10 + DigitVal(Head(s)))

\* the unsigned digits of an int() literal: surrounding whitespace and one sign removed
Unsigned(s) ==
    LET t == Strip(s)
    IN  IF Len(t) > 0 /\ Head(t) \in {"+", "-"} THEN Tail(t) ELSE t

\* int(s) returns (does not raise ValueError)
IntOk(s) == Len(Unsigned(s)) > 0 /\ AllDigits(Unsigned(s))

\* int(s), for IntOk(s)
ParseInt(s) ==
    LET t == Strip(s)
        v == DigitsVal(Unsigned(s), 0)
    IN  IF Len(t) > 0 /\ Head(t) = "-" THEN 0 - v ELSE v

----------------------------------------------------------------------------
(* dict, as the sequence of its items in insertion order *)

DictHas(d, k) == \E i \in 1..Len(d) : d[i][1] = k

\* d.get(k, default)
DictGet(d, k, default) ==
    IF DictHas(d, k) THEN d[CHOOSE i \in 1..Len(d) : d[i][1] = k][2] ELSE default

\* d[k] = v: a new key is appended, an existing key keeps its place
DictSet(d, k, v) ==
    IF DictHas(d, k)
    THEN [i \in 1..Len(d) |-> IF d[i][1] = k THEN <<k, v>> ELSE d[i]]
    ELSE Append(d, <<k, v>>)

\* d[k] = d.get(k, 0) + w
DictAdd(d, k, w) == DictSet(d, k, DictGet(d, k, 0) + w)

RECURSIVE SumValues(_)
\* sum(d.values())
SumValues(d) == IF Len(d) = 0 THEN 0 ELSE d[1][2] + SumValues(Tail(d))

\* one step of a stable descending sort: x goes after every item whose value is >= its own
InsertDesc(sorted, x) ==
    LET k == Cardinality({i \in 1..Len(sorted) : sorted[i][2] >= x[2]})
    IN  SubSeq(sorted, 1, k) \o <<x>> \o SubSeq(sorted, k + 1, Len(sorted))

RECURSIVE SortedDescFrom(_, _)
SortedDescFrom(items, acc) ==
    IF Len(items) = 0 THEN acc
    ELSE SortedDescFrom(Tail(items), InsertDesc(acc, Head(items)))

\* sorted(d.items(), key=lambda x: x[1], reverse=True): stable, equal values keep their order
SortedDesc(items) == SortedDescFrom(items, <<>>)

\* the last item that holds the largest value
MaxItemLast(d) ==
    d[CHOOSE i \in 1..Len(d) :
        /\ \A j \in 1..Len(d) : d[j][2] <= d[i][2]
        /\ \A j \in (i + 1)..Len(d) : d[j][2] < d[i][2]]

\* max(d.items(), key=lambda x: x[1]): the first item that holds the largest value
MaxItem(d) ==
    d[CHOOSE i \in 1..Len(d) :
        /\ \A j \in 1..Len(d) : d[j][2] <= d[i][2]
        /\ \A j \in 1..(i - 1) : d[j][2] < d[i][2]]

\* seq[:n]
Take(seq, n) == SubSeq(seq, 1, Min2(n, Len(seq)))

----------------------------------------------------------------------------
(* Chart bars: top 4 + Others *)

\* a percentage cut to one decimal instead of rounded
RoundPctTrunc(cnt, total) == (cnt * 1000) \div total

\* a percentage rounded up to the next tenth
RoundPctUp(cnt, total) ==
    IF (cnt * 1000) % total = 0 THEN (cnt * 1000) \div total
    ELSE ((cnt * 1000) \div total) + 1

\* round(cnt * 100.0 / total, 1) in tenths: the nearest tenth, a tie to the even one
\* (every tie of cnt*100/total with total < 2000 is a binary fraction, so the float
\* quotient is exact and round() goes half to even)
RoundPct(cnt, total) ==
    LET q == (cnt * 1000) \div total
        r == (cnt * 1000) % total
    IN  IF 2 * r > total THEN q + 1
        ELSE IF 2 * r < total THEN q
        ELSE IF q % 2 = 0 THEN q ELSE q + 1

RECURSIVE SumPct(_)
SumPct(items) == IF Len(items) = 0 THEN 0 ELSE items[1].pct + SumPct(Tail(items))

\* "Others" appended whenever a remainder is left, also when every label is shown
top_four_plus_others_remainder(cm) ==
    LET s     == SumValues(cm)
        total == IF s = 0 THEN 1 ELSE s
        top   == Take(SortedDesc(cm), 4)
        items == [i \in 1..Len(top) |->
                    [label |-> top[i][1], pct |-> RoundPct(top[i][2], total)]]
        others_pct == Max2(0, 1000 - SumPct(items))
    IN  IF others_pct > 0
        THEN Append(items, [label |-> "Others", pct |-> others_pct])
        ELSE items

top_four_plus_others(cm) ==
    LET s     == SumValues(cm)
        total == IF s = 0 THEN 1 ELSE s
        top   == Take(SortedDesc(cm), 4)
        items == [i \in 1..Len(top) |->
                    [label |-> top[i][1], pct |-> RoundPct(top[i][2], total)]]
        acc_pct    == SumPct(items)
        others_pct == Max2(0, 1000 - acc_pct)
    IN  IF others_pct > 0 /\ Len(cm) > Len(top)
        THEN Append(items, [label |-> "Others", pct |-> others_pct])
        ELSE items

----------------------------------------------------------------------------
(* Tables and their seed rows *)

default_sections ==
    << <<"6", "A">>, <<"7", "A">>, <<"7", "B">>, <<"8", "A">>, <<"8", "B">> >>

default_teachers ==
    << <<"Mr. Rahman", "Mathematics">>, <<"Ms. Ayesha", "English">>,
       <<"Mr. Kabir", "Science">>, <<"Mrs. Sultana", "Bangla">> >>

default_staff ==
    << <<"Anwar", "Security">>, <<"Rina", "Cleaning">>, <<"Masud", "Office Assistant">> >>

\* the id SQLite gives a new row of an INTEGER PRIMARY KEY table: the largest id plus one
NextId(rows) ==
    IF Len(rows) = 0 THEN 1
    ELSE 1 + (CHOOSE m \in {rows[i].id : i \in 1..Len(rows)} :
                \A i \in 1..Len(rows) : rows[i].id <= m)

HasRow(rows, id) == \E i \in 1..Len(rows) : rows[i].id = id

\* db.session.get(Model, id), for an id the table holds
Row(rows, id) == rows[CHOOSE i \in 1..Len(rows) : rows[i].id = id]

RECURSIVE SeedSections(_, _)
SeedSections(rows, todo) ==
    IF Len(todo) = 0 THEN rows
    ELSE LET c == Head(todo)[1]
             s == Head(todo)[2]
             exists == \E i \in 1..Len(rows) :
                          rows[i].class_name = c /\ rows[i].section_name = s
         IN  SeedSections(
                 IF exists THEN rows
                 ELSE Append(rows, [id |-> NextId(rows), class_name |-> c, section_name |-> s]),
                 Tail(todo))

RECURSIVE SeedTeachers(_, _)
SeedTeachers(rows, todo) ==
    IF Len(todo) = 0 THEN rows
    ELSE LET n == Head(todo)[1]
             s == Head(todo)[2]
             exists == \E i \in 1..Len(rows) : rows[i].name = n /\ rows[i].subject = s
         IN  SeedTeachers(
                 IF exists THEN rows
                 ELSE Append(rows, [id |-> NextId(rows), name |-> n, subject |-> s]),
                 Tail(todo))

RECURSIVE SeedStaff(_, _)
SeedStaff(rows, todo) ==
    IF Len(todo) = 0 THEN rows
    ELSE LET n == Head(todo)[1]
             r == Head(todo)[2]
             exists == \E i \in 1..Len(rows) : rows[i].name = n /\ rows[i].role = r
         IN  SeedStaff(
                 IF exists THEN rows
                 ELSE Append(rows, [id |-> NextId(rows), name |-> n, role |-> r]),
                 Tail(todo))

\* ClassSection.label()
label(sec) == sec.class_name \o "-" \o sec.section_name

\* the relationship attributes of a note: the referenced row, or no row
receiver_teacher(n) ==
    IF n.receiver_teacher_id # None /\ HasRow(teachers, n.receiver_teacher_id)
    THEN <<Row(teachers, n.receiver_teacher_id)>> ELSE <<>>

receiver_staff(n) ==
    IF n.receiver_staff_id # None /\ HasRow(staffs, n.receiver_staff_id)
    THEN <<Row(staffs, n.receiver_staff_id)>> ELSE <<>>

\* the concurrent requests, none of them between its query and its commit
Requests == 1..MaxRequests

NoRequests == [r \in Requests |-> <<>>]

----------------------------------------------------------------------------
(* Session *)

EmptySession == [k \in {} |-> TRUE]

\* session[k] = v
SessionSet(s, k, v) == [x \in (DOMAIN s) \cup {k} |-> IF x = k THEN v ELSE s[x]]

\* session.pop(k, None)
SessionPop(s, k) == [x \in (DOMAIN s) \ {k} |-> s[x]]

\* a flag test that every session passes
SessionAlwaysTrue(s, k) == TRUE

\* session.get(k) is True
SessionIsTrue(s, k) == k \in DOMAIN s /\ s[k] = TRUE

ADMIN_PIN == "1234"

admin_required == SessionIsTrue(session, "admin_ok")

\* current_user() is not None
current_user ==
    /\ "uid" \in DOMAIN session
    /\ Truthy(session["uid"])
    /\ HasRow(users, session["uid"])

\* a gate that lets the post and admin endpoints through as well
require_unlock_pages(endpoint) ==
    IF endpoint \notin {"home", "wall", "leaders", "certificate"} THEN FALSE
    ELSE IF current_user \/ SessionIsTrue(session, "unlocked") THEN FALSE
    ELSE TRUE

\* before_request: the request is sent to the lock screen instead of its handler
require_unlock(endpoint) ==
    IF endpoint \in {"auth_login", "auth_register", "auth_logout", "lock"} THEN FALSE
    ELSE IF current_user \/ SessionIsTrue(session, "unlocked") THEN FALSE
    ELSE TRUE

----------------------------------------------------------------------------
(* Time: datetimes at midnight, as the day's ordinal number *)

\* the instants the clock steps through
TimeLine ==
    << [year |-> 2024, month |-> 12, day |-> 28],
       [year |-> 2025, month |-> 1, day |-> 30],
       [year |-> 2025, month |-> 2, day |-> 3] >>

IsLeap(y) == (y % 4 = 0) /\ ((y % 100 # 0) \/ (y % 400 = 0))

DaysInMonth(y, m) ==
    IF m = 2 THEN (IF IsLeap(y) THEN 29 ELSE 28)
    ELSE IF m \in {4, 6, 9, 11} THEN 30 ELSE 31

RECURSIVE DaysBeforeMonth(_, _)
DaysBeforeMonth(y, m) ==
    IF m = 1 THEN 0 ELSE DaysBeforeMonth(y, m - 1) + DaysInMonth(y, m - 1)

\* the number of the day dt, counted from 0001-01-01 as day 1
Ordinal(dt) ==
    LET y == dt.year - 1
    IN  y * 365 + (y \div 4) - (y \div 100) + (y \div 400)
          + DaysBeforeMonth(dt.year, dt.month) + dt.day

\* datetime.utcnow()
utcnow == TimeLine[now]

period_ranges ==
    LET t == utcnow
        weekly_start  == Ordinal(t) - 7
        monthly_start == Ordinal([t EXCEPT !.day = 1])
        yearly_start  == Ordinal([t EXCEPT !.month = 1, !.day = 1])
    IN  << <<"weekly",  <<weekly_start, Ordinal(t)>> >>,
           <<"monthly", <<monthly_start, Ordinal(t)>> >>,
           <<"yearly",  <<yearly_start, Ordinal(t)>> >>,
           <<"alltime", <<Ordinal([year |-> 1970, month |-> 1, day |-> 1]), Ordinal(t)>> >> >>

----------------------------------------------------------------------------
(* Queries on the note table *)

\* a query without order_by returns the rows in id order (SQLite's table scan)
RECURSIVE Approved(_)
\* Note.query.filter_by(status='approved').all()
Approved(rows) ==
    IF Len(rows) = 0 THEN <<>>
    ELSE IF Head(rows).status = "approved"
         THEN <<Head(rows)>> \o Approved(Tail(rows))
         ELSE Approved(Tail(rows))

RECURSIVE ApprovedUpTo(_, _, _)
\* the window query without its lower bound
ApprovedUpTo(rows, start, end) ==
    IF Len(rows) = 0 THEN <<>>
    ELSE IF Head(rows).status = "approved" /\ Head(rows).created_at <= end
         THEN <<Head(rows)>> \o ApprovedUpTo(Tail(rows), start, end)
         ELSE ApprovedUpTo(Tail(rows), start, end)

RECURSIVE ModeratedBetween(_, _, _)
\* the window query taking every note that left moderation, hidden ones included
ModeratedBetween(rows, start, end) ==
    IF Len(rows) = 0 THEN <<>>
    ELSE IF Head(rows).status # "pending"
            /\ Head(rows).created_at >= start /\ Head(rows).created_at <= end
         THEN <<Head(rows)>> \o ModeratedBetween(Tail(rows), start, end)
         ELSE ModeratedBetween(Tail(rows), start, end)

RECURSIVE ApprovedBetween(_, _, _)
\* Note.query.filter(Note.status=='approved', Note.created_at >= start, Note.created_at <= end).all()
ApprovedBetween(rows, start, end) ==
    IF Len(rows) = 0 THEN <<>>
    ELSE IF /\ Head(rows).status = "approved"
            /\ Head(rows).created_at >= start
            /\ Head(rows).created_at <= end
         THEN <<Head(rows)>> \o ApprovedBetween(Tail(rows), start, end)
         ELSE ApprovedBetween(Tail(rows), start, end)

\* a query that lost its status filter
WithAnyStatus(rows, st) == rows

RECURSIVE WithStatus(_, _)
\* Note.query.filter_by(status=st)
WithStatus(rows, st) ==
    IF Len(rows) = 0 THEN <<>>
    ELSE IF Head(rows).status = st
         THEN <<Head(rows)>> \o WithStatus(Tail(rows), st)
         ELSE WithStatus(Tail(rows), st)

\* one step of the stable sort by created_at descending
InsertNewest(sorted, n) ==
    LET k == Cardinality({i \in 1..Len(sorted) : sorted[i].created_at >= n.created_at})
    IN  SubSeq(sorted, 1, k) \o <<n>> \o SubSeq(sorted, k + 1, Len(sorted))

RECURSIVE NewestFirstFrom(_, _)
NewestFirstFrom(rows, acc) ==
    IF Len(rows) = 0 THEN acc
    ELSE NewestFirstFrom(Tail(rows), InsertNewest(acc, Head(rows)))

\* .order_by(Note.created_at.desc()): rows of one created_at stay in id order
NewestFirst(rows) == NewestFirstFrom(rows, <<>>)

Ids(rows) == [i \in 1..Len(rows) |-> rows[i].id]

----------------------------------------------------------------------------
(* Leaderboard mappings *)

\* n.weight_applied or 1
WeightOr1(n) == IF Truthy(n.weight_applied) THEN n.weight_applied ELSE 1

RECURSIVE AppreciatedByWeight(_, _)
\* receiver section -> weights received, instead of notes received
AppreciatedByWeight(q, d) ==
    IF Len(q) = 0 THEN d
    ELSE LET n == Head(q)
         IN  AppreciatedByWeight(Tail(q),
                 IF n.receiver_type = "student" /\ Truthy(n.receiver_section_id)
                 THEN DictAdd(d, n.receiver_section_id, n.weight_applied) ELSE d)

RECURSIVE AppreciatedBySection(_, _)
\* receiver section -> number of notes received by its students
AppreciatedBySection(q, d) ==
    IF Len(q) = 0 THEN d
    ELSE LET n == Head(q)
         IN  AppreciatedBySection(Tail(q),
                 IF n.receiver_type = "student" /\ Truthy(n.receiver_section_id)
                 THEN DictAdd(d, n.receiver_section_id, 1) ELSE d)

RECURSIVE AppreciatorByCount(_, _)
\* giver section -> notes given, instead of weights given
AppreciatorByCount(q, d) ==
    IF Len(q) = 0 THEN d
    ELSE LET n == Head(q)
         IN  AppreciatorByCount(Tail(q),
                 IF n.giver_type = "student" /\ Truthy(n.giver_section_id)
                 THEN DictAdd(d, n.giver_section_id, 1) ELSE d)

RECURSIVE AppreciatorBySection(_, _)
\* giver section -> weights given by its students
AppreciatorBySection(q, d) ==
    IF Len(q) = 0 THEN d
    ELSE LET n == Head(q)
         IN  AppreciatorBySection(Tail(q),
                 IF n.giver_type = "student" /\ Truthy(n.giver_section_id)
                 THEN DictAdd(d, n.giver_section_id, WeightOr1(n)) ELSE d)

RECURSIVE TopTeachers(_, _)
\* teacher id -> number of notes received
TopTeachers(q, d) ==
    IF Len(q) = 0 THEN d
    ELSE LET n == Head(q)
         IN  TopTeachers(Tail(q),
                 IF n.receiver_type = "teacher" /\ Truthy(n.receiver_teacher_id)
                 THEN DictAdd(d, n.receiver_teacher_id, 1) ELSE d)

sec_label(sec_id) ==
    IF HasRow(sections, sec_id) THEN label(Row(sections, sec_id)) ELSE "Unknown"

\* the dash of the source's f-strings is written " -- "
teacher_label(tid) ==
    IF HasRow(teachers, tid)
    THEN Row(teachers, tid).name \o " -- " \o Row(teachers, tid).subject
    ELSE "Unknown"

\* max(d.items(), ...) if d else None: no item, or the one item
Best(d) == IF Len(d) = 0 THEN <<>> ELSE <<MaxItem(d)>>

\* one pass of the loop of compute_leaders: the window's mappings, winners and summary
LeadersOfWindow(rows, start, end) ==
    LET q        == ApprovedBetween(rows, start, end)
        app_sec  == AppreciatedBySection(q, <<>>)
        appr_sec == AppreciatorBySection(q, <<>>)
        top_t    == TopTeachers(q, <<>>)
        best_app_sec  == Best(app_sec)
        best_appr_sec == Best(appr_sec)
        best_teacher  == Best(top_t)
    IN  [ q |-> Ids(q),
          app_sec |-> app_sec, appr_sec |-> appr_sec, top_t |-> top_t,
          best_app_sec |-> best_app_sec,
          best_appr_sec |-> best_appr_sec,
          best_teacher |-> best_teacher,
          top_appreciated_section |->
              IF Len(best_app_sec) > 0
              THEN <<sec_label(best_app_sec[1][1]) \o " -- " \o ToString(best_app_sec[1][2])>>
              ELSE <<>>,
          top_appreciator_section |->
              IF Len(best_appr_sec) > 0
              THEN <<sec_label(best_appr_sec[1][1]) \o " -- " \o ToString(best_appr_sec[1][2])>>
              ELSE <<>>,
          top_teacher |->
              IF Len(best_teacher) > 0
              THEN <<teacher_label(best_teacher[1][1]) \o " -- " \o ToString(best_teacher[1][2])>>
              ELSE <<>> ]

\* out: period -> the window's result, in the order of period_ranges
compute_leaders(rows) ==
    LET prs == period_ranges
    IN  [i \in 1..Len(prs) |->
            <<prs[i][1], LeadersOfWindow(rows, prs[i][2][1], prs[i][2][2])>>]

----------------------------------------------------------------------------
(* Bar chart counts of wall and leaders *)

\* table student: no handler inserts a row, and no note refers to one
receiver_student(n) == <<>>

RECURSIVE BarCounts(_, _)
\* teacher_counts, staff_counts, student_counts after the loop over the notes
BarCounts(q, c) ==
    IF Len(q) = 0 THEN c
    ELSE LET n == Head(q)
             lbl == IF Len(receiver_student(n)) > 0 THEN receiver_student(n)[1].name
                    ELSE n.receiver_name_text
         IN  BarCounts(Tail(q),
                 IF n.receiver_type = "teacher" /\ Len(receiver_teacher(n)) > 0
                 THEN [c EXCEPT !.teacher = DictAdd(@, receiver_teacher(n)[1].name, 1)]
                 ELSE IF n.receiver_type = "staff" /\ Len(receiver_staff(n)) > 0
                 THEN [c EXCEPT !.staff = DictAdd(@, receiver_staff(n)[1].name, 1)]
                 ELSE IF n.receiver_type = "student" /\ lbl # ""
                 THEN [c EXCEPT !.student = DictAdd(@, lbl, 1)]
                 ELSE c)

NoCounts == [teacher |-> <<>>, staff |-> <<>>, student |-> <<>>]

\* bars = {"teachers": ..., "students": ..., "staffs": ...}
Bars(q) ==
    LET c == BarCounts(q, NoCounts)
    IN  [teachers |-> top_four_plus_others(c.teacher),
         students |-> top_four_plus_others(c.student),
         staffs   |-> top_four_plus_others(c.staff)]

----------------------------------------------------------------------------
(* Responses *)

Redirect(endpoint) == [kind |-> "redirect", to |-> endpoint]

\* an uncaught exception: the transaction is rolled back and the client gets a 500
ServerError == [kind |-> "error"]

Template(name) == [kind |-> name]

NoPage == [kind |-> "none"]

tables == <<sections, teachers, staffs, users>>

\* a response that leaves the database and the session alone
Respond(p) ==
    /\ page' = p
    /\ UNCHANGED <<notes, tables, session, now, counts_map, inflight, running>>

\* request.form.get(k, default)
FormGet(f, k, default) == IF k \in DOMAIN f THEN f[k] ELSE default

\* int(x) if x else None
IntOrNone(x) == IF x = "" THEN None ELSE ParseInt(x)

----------------------------------------------------------------------------
(* Posting a note *)

\* the giver fields, read the same way by the three post handlers
GiverType(f) == Strip(FormGet(f, "giver_type", "student"))

GiverName(f) == Strip(FormGet(f, "giver_name", ""))

\* request.form.get('giver_section_id') or None; "" stands for None
GiverSection(f) == FormGet(f, "giver_section_id", "")

\* giver_name after 'Anonymous' is filled in for a student
GiverNameStored(f) ==
    IF GiverType(f) = "student" /\ GiverName(f) = "" THEN "Anonymous" ELSE GiverName(f)

\* a note that is stored as approved, whatever status the handler gave
NewNoteApproved(rows, fields) ==
    [ id |-> NextId(rows),
      giver_type |-> fields.giver_type,
      giver_name |-> fields.giver_name,
      giver_section_id |-> fields.giver_section_id,
      receiver_type |-> fields.receiver_type,
      receiver_name_text |-> fields.receiver_name_text,
      receiver_section_id |-> fields.receiver_section_id,
      receiver_student_id |-> None,
      receiver_teacher_id |-> fields.receiver_teacher_id,
      receiver_staff_id |-> fields.receiver_staff_id,
      message |-> fields.message,
      weight_applied |-> fields.weight_applied,
      status |-> "approved",
      created_at |-> Ordinal(utcnow) ]

\* Note(...): the columns not given are None ("" for the string column receiver_name_text)
NewNote(rows, fields) ==
    [ id |-> NextId(rows),
      giver_type |-> fields.giver_type,
      giver_name |-> fields.giver_name,
      giver_section_id |-> fields.giver_section_id,
      receiver_type |-> fields.receiver_type,
      receiver_name_text |-> fields.receiver_name_text,
      receiver_section_id |-> fields.receiver_section_id,
      receiver_student_id |-> None,
      receiver_teacher_id |-> fields.receiver_teacher_id,
      receiver_staff_id |-> fields.receiver_staff_id,
      message |-> fields.message,
      weight_applied |-> fields.weight_applied,
      status |-> fields.status,
      created_at |-> Ordinal(utcnow) ]

\* db.session.add(note); db.session.commit(); redirect to the wall
AddNote(fields) ==
    /\ notes' = Append(notes, NewNote(notes, fields))
    /\ page' = Redirect("wall")
    /\ UNCHANGED <<tables, session, now, counts_map, inflight, running>>

\* a weight that looks at the sections alone, whoever gives
WeightAnyGiver(giver_type, giver_section_id, receiver_section_id) ==
    IF giver_section_id # "" /\ giver_section_id # receiver_section_id THEN 2 ELSE 1

\* weight of a student note: the submitted section values are compared as strings
Weight(giver_type, giver_section_id, receiver_section_id) ==
    IF giver_type = "student" /\ giver_section_id # "" /\ giver_section_id # receiver_section_id
    THEN 2 ELSE 1

post_student(method, f) ==
    LET giver_type == GiverType(f)
        giver_section_id == GiverSection(f)
        receiver_name == Strip(FormGet(f, "receiver_name", ""))
        receiver_section_id == FormGet(f, "receiver_section_id", "")
        message == Strip(FormGet(f, "message", ""))
    IN  IF require_unlock("post_student") THEN Respond(Redirect("lock"))
        ELSE IF method # "POST" THEN Respond(Template("post_student.html"))
        ELSE IF giver_type = "teacher" /\ GiverName(f) = "" THEN Respond(Redirect("post_student"))
        ELSE IF giver_type = "student" /\ giver_section_id = "" THEN Respond(Redirect("post_student"))
        ELSE IF receiver_name = "" \/ receiver_section_id = "" THEN Respond(Redirect("post_student"))
        ELSE IF message = "" THEN Respond(Redirect("post_student"))
        ELSE IF (giver_section_id # "" /\ ~IntOk(giver_section_id)) \/ ~IntOk(receiver_section_id)
             THEN Respond(ServerError)
        ELSE AddNote([ giver_type |-> giver_type,
                       giver_name |-> GiverNameStored(f),
                       giver_section_id |-> IntOrNone(giver_section_id),
                       receiver_type |-> "student",
                       receiver_name_text |-> receiver_name,
                       receiver_section_id |-> ParseInt(receiver_section_id),
                       receiver_teacher_id |-> None,
                       receiver_staff_id |-> None,
                       message |-> message,
                       weight_applied |-> Weight(giver_type, giver_section_id, receiver_section_id),
                       status |-> "pending" ])

post_teacher(method, f) ==
    LET giver_type == GiverType(f)
        giver_section_id == GiverSection(f)
        teacher_id == FormGet(f, "teacher_id", "")
        message == Strip(FormGet(f, "message", ""))
    IN  IF require_unlock("post_teacher") THEN Respond(Redirect("lock"))
        ELSE IF method # "POST" THEN Respond(Template("post_teacher.html"))
        ELSE IF giver_type = "teacher" /\ GiverName(f) = "" THEN Respond(Redirect("post_teacher"))
        ELSE IF giver_type = "student" /\ giver_section_id = "" THEN Respond(Redirect("post_teacher"))
        ELSE IF teacher_id = "" \/ message = "" THEN Respond(Redirect("post_teacher"))
        ELSE IF (giver_section_id # "" /\ ~IntOk(giver_section_id)) \/ ~IntOk(teacher_id)
             THEN Respond(ServerError)
        ELSE AddNote([ giver_type |-> giver_type,
                       giver_name |-> GiverNameStored(f),
                       giver_section_id |-> IntOrNone(giver_section_id),
                       receiver_type |-> "teacher",
                       receiver_name_text |-> "",
                       receiver_section_id |-> None,
                       receiver_teacher_id |-> ParseInt(teacher_id),
                       receiver_staff_id |-> None,
                       message |-> message,
                       weight_applied |-> 1,
                       status |-> "pending" ])

post_staff(method, f) ==
    LET giver_type == GiverType(f)
        giver_section_id == GiverSection(f)
        staff_id == FormGet(f, "staff_id", "")
        message == Strip(FormGet(f, "message", ""))
    IN  IF require_unlock("post_staff") THEN Respond(Redirect("lock"))
        ELSE IF method # "POST" THEN Respond(Template("post_staff.html"))
        ELSE IF giver_type = "teacher" /\ GiverName(f) = "" THEN Respond(Redirect("post_staff"))
        ELSE IF giver_type = "student" /\ giver_section_id = "" THEN Respond(Redirect("post_staff"))
        ELSE IF staff_id = "" \/ message = "" THEN Respond(Redirect("post_staff"))
        ELSE IF (giver_section_id # "" /\ ~IntOk(giver_section_id)) \/ ~IntOk(staff_id)
             THEN Respond(ServerError)
        ELSE AddNote([ giver_type |-> giver_type,
                       giver_name |-> GiverNameStored(f),
                       giver_section_id |-> IntOrNone(giver_section_id),
                       receiver_type |-> "staff",
                       receiver_name_text |-> "",
                       receiver_section_id |-> None,
                       receiver_teacher_id |-> None,
                       receiver_staff_id |-> ParseInt(staff_id),
                       message |-> message,
                       weight_applied |-> 1,
                       status |-> "pending" ])

----------------------------------------------------------------------------
(* Pages computed from the notes *)

\* the context home() renders
HomePage(rows) ==
    [ kind |-> "home.html",
      counts |-> [ pending  |-> Len(WithStatus(rows, "pending")),
                   approved |-> Len(WithStatus(rows, "approved")),
                   hidden   |-> Len(WithStatus(rows, "hidden")) ],
      recent |-> Ids(Take(NewestFirst(WithStatus(rows, "approved")), 5)),
      leader |-> compute_leaders(rows) ]

home ==
    IF require_unlock("home") THEN Respond(Redirect("lock"))
    ELSE Respond(HomePage(notes))

\* home(), served beside other requests, up to the call of compute_leaders: the three
\* counts and the recent notes are queried
home_begin ==
    /\ running = <<>>
    /\ IF require_unlock("home") THEN Respond(Redirect("lock"))
       ELSE /\ running' = << [ counts |-> HomePage(notes).counts,
                                recent |-> HomePage(notes).recent,
                                out    |-> <<>> ] >>
            /\ UNCHANGED <<notes, tables, session, now, page, counts_map, inflight>>

\* one pass of the loop of compute_leaders in the running home(): the query of the
\* next window reads the note table as it is now, and the result is stored in out
home_query ==
    /\ running # <<>>
    /\ Len(running[1].out) < Len(period_ranges)
    /\ LET pr == period_ranges[Len(running[1].out) + 1]
       IN  running' = << [running[1] EXCEPT
                             !.out = Append(@, <<pr[1],
                                 LeadersOfWindow(notes, pr[2][1], pr[2][2])>>)] >>
    /\ UNCHANGED <<notes, tables, session, now, page, counts_map, inflight>>

\* the running home() renders its template
home_render ==
    /\ running # <<>>
    /\ Len(running[1].out) = Len(period_ranges)
    /\ page' = [ kind |-> "home.html", counts |-> running[1].counts,
                 recent |-> running[1].recent, leader |-> running[1].out ]
    /\ running' = <<>>
    /\ UNCHANGED <<notes, tables, session, now, counts_map, inflight>>

\* the context wall() renders
WallPage(rows) ==
    LET listed == Take(NewestFirst(WithStatus(rows, "approved")), 200)
    IN  [ kind |-> "wall.html", notes |-> Ids(listed), bars |-> Bars(listed) ]

wall ==
    IF require_unlock("wall") THEN Respond(Redirect("lock"))
    ELSE Respond(WallPage(notes))

\* the context leaders() renders, and the notes it iterates
LeadersPage(rows) ==
    LET approved == Approved(rows)
    IN  [ kind |-> "leaders.html",
          approved |-> Ids(approved),
          top_appreciators_section |->
              Take(SortedDesc(AppreciatorBySection(approved, <<>>)), 10),
          top_appreciated_section |->
              Take(SortedDesc(AppreciatedBySection(approved, <<>>)), 10),
          top_teachers |-> Take(SortedDesc(TopTeachers(approved, <<>>)), 10),
          bars |-> Bars(approved) ]

leaders ==
    IF require_unlock("leaders") THEN Respond(Redirect("lock"))
    ELSE Respond(LeadersPage(notes))

RECURSIVE TeacherNameCounts(_, _)
TeacherNameCounts(q, d) ==
    IF Len(q) = 0 THEN d
    ELSE LET n == Head(q)
         IN  TeacherNameCounts(Tail(q),
                 IF n.receiver_type = "teacher" /\ Len(receiver_teacher(n)) > 0
                 THEN DictAdd(d, receiver_teacher(n)[1].name, 1) ELSE d)

RECURSIVE StaffNameCounts(_, _)
StaffNameCounts(q, d) ==
    IF Len(q) = 0 THEN d
    ELSE LET n == Head(q)
         IN  StaffNameCounts(Tail(q),
                 IF n.receiver_type = "staff" /\ Len(receiver_staff(n)) > 0
                 THEN DictAdd(d, receiver_staff(n)[1].name, 1) ELSE d)

\* the label of the certificate, "" when there is none
CertificateLabel(rows, category, rank) ==
    LET approved == Approved(rows)
        items == IF category = "teacher" THEN SortedDesc(TeacherNameCounts(approved, <<>>))
                 ELSE IF category = "staff" THEN SortedDesc(StaffNameCounts(approved, <<>>))
                 ELSE SortedDesc(AppreciatedBySection(approved, <<>>))
    IN  IF Len(items) < rank THEN ""
        ELSE IF category \in {"teacher", "staff"} THEN items[rank][1]
        ELSE IF HasRow(sections, items[rank][1]) THEN label(Row(sections, items[rank][1]))
        ELSE ""

\* the response of certificate(), and the notes it iterates
CertificatePage(rows, category, rank) ==
    IF category \notin {"teacher", "staff", "student_section"} \/ rank \notin {1, 2, 3}
    THEN Redirect("leaders")
    ELSE IF CertificateLabel(rows, category, rank) = "" THEN Redirect("leaders")
    ELSE [ kind |-> "certificate.html", category |-> category, rank |-> rank,
           approved |-> Ids(Approved(rows)),
           label |-> CertificateLabel(rows, category, rank) ]

certificate(category, rank) ==
    IF require_unlock("certificate") THEN Respond(Redirect("lock"))
    ELSE Respond(CertificatePage(notes, category, rank))

----------------------------------------------------------------------------
(* Moderation *)

\* a delete that takes the older rows with it
WithoutUpTo(rows, nid) == SelectSeq(rows, LAMBDA n : n.id > nid)

RECURSIVE Without(_, _)
\* the rows after db.session.delete of the row nid
Without(rows, nid) ==
    IF Len(rows) = 0 THEN <<>>
    ELSE IF Head(rows).id = nid THEN Without(Tail(rows), nid)
    ELSE <<Head(rows)>> \o Without(Tail(rows), nid)

admin_delete(nid) ==
    IF require_unlock("admin_delete") THEN Respond(Redirect("lock"))
    ELSE IF ~admin_required THEN Respond(Redirect("admin_login"))
    ELSE /\ notes' = IF HasRow(notes, nid) THEN Without(notes, nid) ELSE notes
         /\ page' = Redirect("admin_panel")
         /\ UNCHANGED <<tables, session, now, counts_map, inflight, running>>

\* an if/elif chain in which unhide acts on hidden notes only
StatusAfterGuarded(status, action) ==
    IF action = "approve" THEN "approved"
    ELSE IF action = "hide" THEN "hidden"
    ELSE IF action = "unhide" /\ status = "hidden" THEN "approved"
    ELSE status

\* an if/elif chain that ends with an else branch sending the note back to moderation
StatusAfterOrPending(status, action) ==
    IF action = "approve" THEN "approved"
    ELSE IF action = "hide" THEN "hidden"
    ELSE IF action = "unhide" THEN "approved"
    ELSE "pending"

\* note.status after the if/elif chain
StatusAfter(status, action) ==
    IF action = "approve" THEN "approved"
    ELSE IF action = "hide" THEN "hidden"
    ELSE IF action = "unhide" THEN "approved"
    ELSE status

admin_note_action(nid, action) ==
    IF require_unlock("admin_note_action") THEN Respond(Redirect("lock"))
    ELSE IF ~admin_required THEN Respond(Redirect("admin_login"))
    ELSE IF ~HasRow(notes, nid) THEN Respond(Redirect("admin_panel"))
    ELSE /\ notes' = [i \in 1..Len(notes) |->
                        IF notes[i].id = nid
                        THEN [notes[i] EXCEPT !.status = StatusAfter(@, action)]
                        ELSE notes[i]]
         /\ page' = Redirect("admin_panel")
         /\ UNCHANGED <<tables, session, now, counts_map, inflight, running>>

----------------------------------------------------------------------------
(* The admin panel *)

\* a row of class_section holds the pair
SectionExists(rows, c, s) ==
    \E i \in 1..Len(rows) : rows[i].class_name = c /\ rows[i].section_name = s

\* a table without the unique constraint on the pair
NoUniqueConstraint(rows, c, s) == FALSE

\* UniqueConstraint('class_name','section_name'): the INSERT of the pair fails
UniqueViolation(rows, c, s) == SectionExists(rows, c, s)

\* admin_panel(), served as request r, up to the commit of a new section: the section
\* form queries for the pair and, when it finds none, is left about to insert it;
\* every other request is answered at once
admin_panel(r, method, f) ==
    LET form_name == FormGet(f, "form", "")
        c == Strip(FormGet(f, "class_name", ""))
        s == Upper(Strip(FormGet(f, "section_name", "")))
        tname == Strip(FormGet(f, "teacher_name", ""))
        tsubj == Strip(FormGet(f, "teacher_subject", ""))
    IN  IF inflight[r] # <<>> THEN FALSE
        ELSE IF require_unlock("admin_panel") THEN Respond(Redirect("lock"))
        ELSE IF ~admin_required THEN Respond(Redirect("admin_login"))
        ELSE IF method = "POST" /\ form_name = "section"
             THEN IF c = "" \/ s = "" \/ SectionExists(sections, c, s)
                  THEN Respond(Redirect("admin_panel"))
                  ELSE /\ inflight' = [inflight EXCEPT ![r] = <<c, s>>]
                       /\ UNCHANGED <<notes, tables, session, now, page, counts_map, running>>
        ELSE IF method = "POST" /\ form_name = "teacher"
             THEN IF tname = "" \/ tsubj = ""
                     \/ (\E i \in 1..Len(teachers) :
                            teachers[i].name = tname /\ teachers[i].subject = tsubj)
                  THEN Respond(Redirect("admin_panel"))
                  ELSE /\ teachers' = Append(teachers, [id |-> NextId(teachers),
                                                        name |-> tname, subject |-> tsubj])
                       /\ page' = Redirect("admin_panel")
                       /\ UNCHANGED <<notes, sections, staffs, users, session, now,
                                      counts_map, inflight, running>>
        ELSE Respond(Template("admin_panel.html"))

\* db.session.add(ClassSection(...)); db.session.commit() of request r: the row is
\* inserted, or the unique constraint raises and the transaction is rolled back
admin_panel_commit(r) ==
    /\ inflight[r] # <<>>
    /\ IF UniqueViolation(sections, inflight[r][1], inflight[r][2])
       THEN /\ page' = ServerError
            /\ UNCHANGED sections
       ELSE /\ sections' = Append(sections, [id |-> NextId(sections),
                                             class_name |-> inflight[r][1],
                                             section_name |-> inflight[r][2]])
            /\ page' = Redirect("admin_panel")
    /\ inflight' = [inflight EXCEPT ![r] = <<>>]
    /\ UNCHANGED <<notes, teachers, staffs, users, session, now, counts_map, running>>

\* the application is started again on the same database: the default rows that are
\* missing are added
create_app ==
    /\ sections' = SeedSections(sections, default_sections)
    /\ teachers' = SeedTeachers(teachers, default_teachers)
    /\ staffs' = SeedStaff(staffs, default_staff)
    /\ page' = NoPage
    /\ UNCHANGED <<notes, users, session, now, counts_map, inflight, running>>

----------------------------------------------------------------------------
(* Session handlers *)

lock(method) ==
    IF method = "POST"
    THEN /\ session' = SessionSet(session, "unlocked", TRUE)
         /\ page' = Redirect("home")
         /\ UNCHANGED <<notes, tables, now, counts_map, inflight, running>>
    ELSE Respond(Template("lock.html"))

\* a login that accepts every PIN
admin_login_any_pin(method, pin) ==
    IF require_unlock("admin_login") THEN Respond(Redirect("lock"))
    ELSE IF method = "POST"
    THEN /\ session' = SessionSet(session, "admin_ok", TRUE)
         /\ page' = Redirect("admin_panel")
         /\ UNCHANGED <<notes, tables, now, counts_map, inflight, running>>
    ELSE Respond(Template("admin_login.html"))

admin_login(method, pin) ==
    IF require_unlock("admin_login") THEN Respond(Redirect("lock"))
    ELSE IF method = "POST" /\ pin = ADMIN_PIN
    THEN /\ session' = SessionSet(session, "admin_ok", TRUE)
         /\ page' = Redirect("admin_panel")
         /\ UNCHANGED <<notes, tables, now, counts_map, inflight, running>>
    ELSE Respond(Template("admin_login.html"))

admin_logout ==
    IF require_unlock("admin_logout") THEN Respond(Redirect("lock"))
    ELSE /\ session' = EmptySession
         /\ page' = Redirect("home")
         /\ UNCHANGED <<notes, tables, now, counts_map, inflight, running>>

\* a sign-out that clears the whole session
auth_logout_clear ==
    /\ session' = SessionSet(EmptySession, "unlocked", FALSE)
    /\ page' = Redirect("home")
    /\ UNCHANGED <<notes, tables, now, counts_map, inflight, running>>

auth_logout ==
    /\ session' = SessionSet(SessionPop(session, "uid"), "unlocked", FALSE)
    /\ page' = Redirect("home")
    /\ UNCHANGED <<notes, tables, now, counts_map, inflight, running>>

\* User.query.filter_by(username=username).first(): the row, or no row
UserNamed(username) ==
    IF \E i \in 1..Len(users) : users[i].username = username
    THEN <<users[CHOOSE i \in 1..Len(users) : users[i].username = username]>>
    ELSE <<>>

\* generate_password_hash(raw): a value that check_password_hash accepts for raw only
PasswordHash(raw) == <<"hash", raw>>

\* User.check_password(raw)
check_password(u, raw) == u.password_hash = PasswordHash(raw)

auth_register(method, f) ==
    LET role == Strip(FormGet(f, "role", ""))
        name == Strip(FormGet(f, "name", ""))
        username == Lower(Strip(FormGet(f, "username", "")))
        password == FormGet(f, "password", "")
        section_id == FormGet(f, "class_section_id", "")
    IN  IF method # "POST" THEN Respond(Template("auth_register.html"))
        ELSE IF role \notin {"student", "teacher", "staff"}
        THEN Respond(Redirect("auth_register"))
        ELSE IF name = "" \/ username = "" \/ password = ""
        THEN Respond(Redirect("auth_register"))
        ELSE IF UserNamed(username) # <<>> THEN Respond(Redirect("auth_register"))
        ELSE IF role = "student" /\ section_id # "" /\ ~IntOk(section_id)
        THEN Respond(ServerError)
        ELSE /\ users' = Append(users,
                     [id |-> NextId(users), role |-> role, name |-> name,
                      class_section_id |-> IF role = "student" /\ section_id # ""
                                           THEN ParseInt(section_id) ELSE None,
                      username |-> username,
                      password_hash |-> PasswordHash(password)])
             /\ page' = Redirect("auth_login")
             /\ UNCHANGED <<notes, sections, teachers, staffs, session, now,
                            counts_map, inflight, running>>

auth_login(method, f) ==
    LET username == Lower(Strip(FormGet(f, "username", "")))
        password == FormGet(f, "password", "")
        u == UserNamed(username)
    IN  IF method # "POST" THEN Respond(Template("auth_login.html"))
        ELSE IF u = <<>> \/ ~check_password(u[1], password)
        THEN Respond(Redirect("auth_login"))
        ELSE /\ session' = SessionSet(SessionSet(session, "uid", u[1].id),
                                      "unlocked", TRUE)
             /\ page' = Redirect("home")
             /\ UNCHANGED <<notes, tables, now, counts_map, inflight, running>>

----------------------------------------------------------------------------
(* The clock *)

\* time passes between two requests: the last response has been delivered, and no
\* response is being computed while the clock moves
Tick ==
    /\ now < Len(TimeLine)
    /\ now' = now + 1
    /\ page' = NoPage
    /\ UNCHANGED <<notes, tables, session, counts_map, inflight, running>>

----------------------------------------------------------------------------
(* The application at one instant: every handler, on small sets of requests *)

Methods == {"GET", "POST"}

StudentForms ==
    { [giver_type |-> "student", giver_section_id |-> "1", receiver_name |-> "Rafi",
       receiver_section_id |-> "2", message |-> "Thank you"],
      [giver_type |-> "student", giver_section_id |-> "1", receiver_name |-> "Rafi",
       receiver_section_id |-> "2", message |-> " "] }

TeacherForms ==
    { [giver_type |-> "student", giver_section_id |-> "1", teacher_id |-> "1",
       message |-> "Thank you"],
      [giver_type |-> "teacher", giver_name |-> "", teacher_id |-> "1",
       message |-> "Thank you"] }

StaffForms ==
    { [giver_section_id |-> "1", staff_id |-> "1", message |-> "Thank you"],
      [giver_section_id |-> "1", message |-> "Thank you"] }

NoteIds == 1..MaxNoteId

Actions == {"approve", "hide", "unhide", "pin"}

Categories == {"teacher", "staff", "student_section", "student"}

Ranks == 1..4

Pins == {"1234", "0000"}

\* the state after create_app(): seeded tables, no note, a fresh session
Init ==
    /\ notes = <<>>
    /\ sections = SeedSections(<<>>, default_sections)
    /\ teachers = SeedTeachers(<<>>, default_teachers)
    /\ staffs = SeedStaff(<<>>, default_staff)
    /\ users = <<>>
    /\ session = EmptySession
    /\ now = 1
    /\ page = NoPage
    /\ counts_map = <<>>
    /\ inflight = NoRequests
    /\ running = <<>>

\* post requests, while ids up to the bound are left
PostStudent ==
    /\ NextId(notes) <= MaxNoteId
    /\ \E m \in Methods, f \in StudentForms : post_student(m, f)

PostTeacher ==
    /\ NextId(notes) <= MaxNoteId
    /\ \E m \in Methods, f \in TeacherForms : post_teacher(m, f)

PostStaff ==
    /\ NextId(notes) <= MaxNoteId
    /\ \E m \in Methods, f \in StaffForms : post_staff(m, f)

Certificate == \E c \in Categories, r \in Ranks : certificate(c, r)

AdminNoteAction == \E nid \in NoteIds, a \in Actions : admin_note_action(nid, a)

AdminDelete == \E nid \in NoteIds : admin_delete(nid)

Lock == \E m \in Methods : lock(m)

AdminLogin == \E m \in Methods, pin \in Pins : admin_login(m, pin)

Next ==
    \/ PostStudent
    \/ PostTeacher
    \/ PostStaff
    \/ home
    \/ wall
    \/ leaders
    \/ Certificate
    \/ AdminNoteAction
    \/ AdminDelete
    \/ Lock
    \/ AdminLogin
    \/ admin_logout
    \/ auth_logout

Spec == Init /\ [][Next]_vars

----------------------------------------------------------------------------
(* The leaderboards over time: an unlocked admin session posts and approves *)
(* notes while the clock advances                                           *)

LeaderStudentForms ==
    { [giver_type |-> "student", giver_section_id |-> "1", receiver_name |-> "Rafi",
       receiver_section_id |-> r, message |-> "Thank you"] : r \in {"1", "2"} }

LeaderTeacherForms ==
    { [giver_type |-> "student", giver_section_id |-> "2", teacher_id |-> "1",
       message |-> "Thank you"],
      [giver_type |-> "teacher", giver_name |-> "Ms. Ayesha", giver_section_id |-> "1",
       teacher_id |-> "2", message |-> "Thank you"] }

AdminSession == SessionSet(SessionSet(EmptySession, "unlocked", TRUE), "admin_ok", TRUE)

InitLeaders ==
    /\ notes = <<>>
    /\ sections = SeedSections(<<>>, default_sections)
    /\ teachers = SeedTeachers(<<>>, default_teachers)
    /\ staffs = SeedStaff(<<>>, default_staff)
    /\ users = <<>>
    /\ session = AdminSession
    /\ now = 1
    /\ page = NoPage
    /\ counts_map = <<>>
    /\ inflight = NoRequests
    /\ running = <<>>

PostStudentLeaders ==
    /\ NextId(notes) <= MaxLeaderNotes
    /\ \E f \in LeaderStudentForms : post_student("POST", f)

PostTeacherLeaders ==
    /\ NextId(notes) <= MaxLeaderNotes
    /\ \E f \in LeaderTeacherForms : post_teacher("POST", f)

Approve == \E nid \in 1..MaxLeaderNotes : admin_note_action(nid, "approve")

NextLeaders ==
    \/ PostStudentLeaders
    \/ PostTeacherLeaders
    \/ Approve
    \/ home
    \/ leaders
    \/ Tick

SpecLeaders == InitLeaders /\ [][NextLeaders]_vars

----------------------------------------------------------------------------
(* The submitted forms: an unlocked session posts notes to students *)

SectionValues == {"", "1", "01", "2", " 1", "x"}

PostedStudentForms ==
    { [giver_type |-> t, giver_name |-> "Mr. Kabir", giver_section_id |-> g,
       receiver_name |-> "Rafi", receiver_section_id |-> r, message |-> "Thank you"] :
        t \in {"student", "teacher"}, g \in SectionValues, r \in SectionValues }

InitPost ==
    /\ notes = <<>>
    /\ sections = SeedSections(<<>>, default_sections)
    /\ teachers = SeedTeachers(<<>>, default_teachers)
    /\ staffs = SeedStaff(<<>>, default_staff)
    /\ users = <<>>
    /\ session = SessionSet(EmptySession, "unlocked", TRUE)
    /\ now = 1
    /\ page = NoPage
    /\ counts_map = <<>>
    /\ inflight = NoRequests
    /\ running = <<>>

PostStudentForm ==
    /\ NextId(notes) <= MaxPosted
    /\ \E m \in Methods, f \in PostedStudentForms : post_student(m, f)

NextPost == PostStudentForm

SpecPost == InitPost /\ [][NextPost]_vars

----------------------------------------------------------------------------
(* top_four_plus_others on its own: it is applied, MaxCalls times, to a      *)
(* mapping of up to MaxLabels labels with counts up to MaxCount              *)

LabelName(i) == "T" \o ToString(i)

\* the mappings of n labels, T1..Tn in insertion order
RECURSIVE MapsOfLen(_)
MapsOfLen(n) ==
    IF n = 0 THEN {<<>>}
    ELSE { Append(m, <<LabelName(n), c>>) : m \in MapsOfLen(n - 1), c \in 1..MaxCount }

\* the teacher counts of the documented example
ExampleCounts == << <<"T1", 10>>, <<"T2", 7>>, <<"T3", 5>>, <<"T4", 3>>, <<"T5", 1>> >>

CountsMaps == (UNION { MapsOfLen(n) : n \in 0..MaxLabels }) \cup {ExampleCounts}

InitBars ==
    /\ notes = <<>>
    /\ sections = SeedSections(<<>>, default_sections)
    /\ teachers = SeedTeachers(<<>>, default_teachers)
    /\ staffs = SeedStaff(<<>>, default_staff)
    /\ users = <<>>
    /\ session = EmptySession
    /\ now = 1
    /\ page = NoPage
    /\ counts_map \in CountsMaps
    /\ inflight = NoRequests
    /\ running = <<>>

\* a call that sorts the mapping it is given in place
CallTopFourSorting ==
    /\ (IF page.kind = "bars" THEN page.call ELSE 0) < MaxCalls
    /\ page' = [ kind |-> "bars",
                 call |-> (IF page.kind = "bars" THEN page.call ELSE 0) + 1,
                 bars |-> top_four_plus_others(counts_map) ]
    /\ counts_map' = SortedDesc(counts_map)
    /\ UNCHANGED <<notes, tables, session, now, inflight, running>>

\* bars[...] = top_four_plus_others(counts): the mapping is read, never written
CallTopFour ==
    /\ (IF page.kind = "bars" THEN page.call ELSE 0) < MaxCalls
    /\ page' = [ kind |-> "bars",
                 call |-> (IF page.kind = "bars" THEN page.call ELSE 0) + 1,
                 bars |-> top_four_plus_others(counts_map) ]
    /\ UNCHANGED <<notes, tables, session, now, counts_map, inflight, running>>

NextBars == CallTopFour

SpecBars == InitBars /\ [][NextBars]_vars

----------------------------------------------------------------------------
(* Properties of top_four_plus_others (SpecBars) *)

Abs(x) == IF x < 0 THEN 0 - x ELSE x

RECURSIVE SumCounts(_, _)
\* the sum of the counts of the items of cm at the positions I
SumCounts(cm, I) ==
    IF I = {} THEN 0
    ELSE LET i == CHOOSE x \in I : TRUE IN cm[i][2] + SumCounts(cm, I \ {i})

RECURSIVE SumBuckets(_, _)
\* the sum of the percentages of the buckets at the positions I
SumBuckets(bars, I) ==
    IF I = {} THEN 0
    ELSE LET i == CHOOSE x \in I : TRUE IN bars[i].pct + SumBuckets(bars, I \ {i})

\* pct tenths is cnt*100/total rounded to one decimal: no tenth is nearer, and of two
\* equally near tenths it is the even one
IsRounded(pct, cnt, total) ==
    /\ 2 * Abs(pct * total - 1000 * cnt) <= total
    /\ (2 * Abs(pct * total - 1000 * cnt) = total) => (pct % 2 = 0)

NonOthers(bars) == {i \in 1..Len(bars) : bars[i].label # "Others"}

HasOthers(bars) == \E i \in 1..Len(bars) : bars[i].label = "Others"

\* C3: for a non-empty mapping, top_four_plus_others returns at most 5 buckets; each
\* bucket other than "Others" carries round(count*100/total, 1) of its label's count,
\* total being the sum of all counts; these buckets are in descending order of
\* percentage and "Others", if present, is the last bucket.
C3_BucketsRoundedAndOrdered ==
    (page.kind = "bars" /\ Len(counts_map) > 0) =>
        LET bars  == page.bars
            total == SumCounts(counts_map, 1..Len(counts_map))
        IN  /\ Len(bars) <= 5
            /\ \A i \in NonOthers(bars) :
                  \E j \in 1..Len(counts_map) :
                      /\ counts_map[j][1] = bars[i].label
                      /\ IsRounded(bars[i].pct, counts_map[j][2], total)
            /\ \A i, j \in NonOthers(bars) : i < j => bars[i].pct >= bars[j].pct
            /\ \A i \in 1..Len(bars) : bars[i].label = "Others" => i = Len(bars)

\* five buckets, "Others" last, the percentages not all the same, one of them a tie
\* (18.75% of a total of 16) that went to the even tenth
C3_Witness ==
    /\ page.kind = "bars"
    /\ Len(page.bars) = 5
    /\ page.bars[5].label = "Others"
    /\ page.bars[1].pct > page.bars[4].pct
    /\ SumCounts(counts_map, 1..Len(counts_map)) = 16
    /\ page.bars[4].pct = 188

\* C4 as claimed: the percentages of all returned buckets sum to at most 100%.
C4_SumAtMost100 ==
    page.kind = "bars" => SumBuckets(page.bars, 1..Len(page.bars)) <= 1000

\* C4 as amended: the percentages of all returned buckets sum to at most 100.2% (each
\* of the at most four top percentages is rounded up by at most 0.05), and to exactly
\* 100% when an "Others" bucket is returned.
C4_SumAtMost100WithDrift ==
    page.kind = "bars" =>
        /\ SumBuckets(page.bars, 1..Len(page.bars)) <= 1002
        /\ HasOthers(page.bars) => SumBuckets(page.bars, 1..Len(page.bars)) = 1000

\* counts 2, 2, 3: 28.6 + 28.6 + 42.9 = 100.1
C4_Witness ==
    /\ page.kind = "bars"
    /\ Len(counts_map) > 0
    /\ SumBuckets(page.bars, 1..Len(page.bars)) = 1001

\* C5: "Others" is appended exactly when the mapping has more than 4 labels and 100
\* minus the sum of the top-4 percentages is positive; its percentage is that
\* remainder; counts 10, 7, 5, 3, 1 give 38.5, 26.9, 19.2, 11.5 and Others 3.9.
C5_OthersIsTheRemainder ==
    page.kind = "bars" =>
        LET bars   == page.bars
            topsum == SumBuckets(bars, NonOthers(bars))
        IN  /\ Cardinality(NonOthers(bars)) = Min2(4, Len(counts_map))
            /\ HasOthers(bars) <=> (Len(counts_map) > 4 /\ 1000 - topsum > 0)
            /\ HasOthers(bars) => bars[Len(bars)].pct = 1000 - topsum
            /\ counts_map = ExampleCounts =>
                  bars = << [label |-> "T1", pct |-> 385], [label |-> "T2", pct |-> 269],
                            [label |-> "T3", pct |-> 192], [label |-> "T4", pct |-> 115],
                            [label |-> "Others", pct |-> 39] >>

\* the documented example has been computed
C5_Witness ==
    /\ page.kind = "bars"
    /\ counts_map = ExampleCounts
    /\ HasOthers(page.bars)

\* C6: a call of top_four_plus_others leaves the mapping as it was, and a further call
\* on the mapping returns the same buckets in the same order.
C6_Idempotent ==
    [][ page'.kind = "bars" =>
            /\ counts_map' = counts_map
            /\ page.kind = "bars" => page'.bars = page.bars ]_vars

\* a second call has returned, on a mapping whose items are not in descending order
C6_Witness ==
    /\ page.kind = "bars"
    /\ page.call = 2
    /\ Len(page.bars) = 5
    /\ counts_map # SortedDesc(counts_map)

----------------------------------------------------------------------------
(* Properties of the pages (Spec) *)

\* the note table without its pending and hidden rows
Visible == SelectSeq(notes, LAMBDA n : n.status = "approved")

\* id is the id of a stored note that is approved
IsApprovedId(id) == \E i \in 1..Len(notes) : notes[i].id = id /\ notes[i].status = "approved"

AllApproved(ids) == \A i \in 1..Len(ids) : IsApprovedId(ids[i])

\* C1: every note listed on the wall or iterated for a leaderboard mapping, a
\* certificate or a chart bar is approved when the page is computed, and the page is
\* the one computed from the approved notes alone: pending and hidden notes
\* contribute nothing.
C1_OnlyApprovedNotesCount ==
    /\ page.kind = "wall.html" =>
          /\ AllApproved(page.notes)
          /\ page = WallPage(Visible)
    /\ page.kind = "leaders.html" =>
          /\ AllApproved(page.approved)
          /\ page = LeadersPage(Visible)
    /\ page.kind = "home.html" =>
          /\ AllApproved(page.recent)
          /\ \A w \in 1..Len(page.leader) : AllApproved(page.leader[w][2].q)
          /\ page.leader = compute_leaders(Visible)
    /\ page.kind = "certificate.html" =>
          /\ AllApproved(page.approved)
          /\ page = CertificatePage(Visible, page.category, page.rank)

\* the wall lists an approved note while another note, once hidden, is stored
C1_Witness ==
    /\ page.kind = "wall.html"
    /\ Len(page.notes) = 1
    /\ Len(page.bars.students) = 1
    /\ \E i \in 1..Len(notes) : notes[i].status = "hidden" /\ notes[i].receiver_type = "teacher"

----------------------------------------------------------------------------
(* Properties of post_student (SpecPost) *)

\* C2: a note stored by post_student for a student giver has weight 2 when the giver's
\* section and the receiver's section differ and weight 1 when they are the same
\* section id.
C2_WeightBySection ==
    \A i \in 1..Len(notes) :
        (notes[i].giver_type = "student" /\ notes[i].receiver_type = "student") =>
            notes[i].weight_applied =
                (IF notes[i].giver_section_id # notes[i].receiver_section_id THEN 2 ELSE 1)

----------------------------------------------------------------------------
(* Properties of compute_leaders and leaders (SpecLeaders) *)

Windows == 1..Len(period_ranges)

\* the positions in the note table of the approved notes of the window w
Counted(w) ==
    {i \in 1..Len(notes) :
        /\ notes[i].status = "approved"
        /\ notes[i].created_at >= period_ranges[w][2][1]
        /\ notes[i].created_at <= period_ranges[w][2][2]}

AllTime == {i \in 1..Len(notes) : notes[i].status = "approved"}

\* the key a note is counted under in each mapping, None when it is not counted
AppreciatedKey(n) ==
    IF n.receiver_type = "student" /\ n.receiver_section_id \notin {None, 0}
    THEN n.receiver_section_id ELSE None

AppreciatorKey(n) ==
    IF n.giver_type = "student" /\ n.giver_section_id \notin {None, 0}
    THEN n.giver_section_id ELSE None

TeacherKey(n) ==
    IF n.receiver_type = "teacher" /\ n.receiver_teacher_id \notin {None, 0}
    THEN n.receiver_teacher_id ELSE None

RECURSIVE SumWeights(_)
\* the sum of weight_applied over the notes at the positions I
SumWeights(I) ==
    IF I = {} THEN 0
    ELSE LET i == CHOOSE x \in I : TRUE IN notes[i].weight_applied + SumWeights(I \ {i})

Keys(d) == {d[i][1] : i \in 1..Len(d)}

SectionIds == {sections[i].id : i \in 1..Len(sections)}

TeacherIds == {teachers[i].id : i \in 1..Len(teachers)}

\* C7: for every window and category, when no approved note of the window contributes
\* to the category's mapping, compute_leaders returns None for it, and home completes.
C7_EmptyMappingNoWinner ==
    /\ page.kind # "error"
    /\ page.kind = "home.html" =>
          \A w \in Windows :
              LET r == page.leader[w][2]
              IN  /\ (\A i \in Counted(w) : AppreciatedKey(notes[i]) = None)
                        => r.top_appreciated_section = <<>>
                  /\ (\A i \in Counted(w) : AppreciatorKey(notes[i]) = None)
                        => r.top_appreciator_section = <<>>
                  /\ (\A i \in Counted(w) : TeacherKey(notes[i]) = None)
                        => r.top_teacher = <<>>

\* the week has no teacher note and no winning teacher, while it has a winning
\* section and all time has a winning teacher
C7_Witness ==
    /\ page.kind = "home.html"
    /\ page.leader[1][1] = "weekly"
    /\ page.leader[1][2].top_teacher = <<>>
    /\ page.leader[1][2].top_appreciated_section # <<>>
    /\ page.leader[4][2].top_teacher # <<>>

\* C8: the appreciator score of a section is the sum of weight_applied over the
\* approved notes in scope (of the window in compute_leaders, of all time in leaders)
\* given by a student of that section, whatever the receiver type.
C8_AppreciatorScoreIsWeightSum ==
    /\ page.kind = "home.html" =>
          \A w \in Windows :
              /\ Keys(page.leader[w][2].appr_sec) \subseteq SectionIds
              /\ \A S \in SectionIds :
                    DictGet(page.leader[w][2].appr_sec, S, 0)
                      = SumWeights({i \in Counted(w) : AppreciatorKey(notes[i]) = S})
    /\ page.kind = "leaders.html" =>
          /\ Keys(page.top_appreciators_section) \subseteq SectionIds
          /\ \A S \in SectionIds :
                DictGet(page.top_appreciators_section, S, 0)
                  = SumWeights({i \in AllTime : AppreciatorKey(notes[i]) = S})

\* one same-section and one cross-section student note from section 1 (6-A), both of
\* this week, give it 3
C8_Witness ==
    /\ page.kind = "home.html"
    /\ DictGet(page.leader[1][2].appr_sec, 1, 0) = 3
    /\ Cardinality({i \in Counted(1) : AppreciatorKey(notes[i]) = 1}) = 2
    /\ \E i \in Counted(1) : notes[i].weight_applied = 1
    /\ \E i \in Counted(1) : notes[i].weight_applied = 2

\* C9: in compute_leaders the count of a receiver section is the number of approved
\* notes of the window to a student of the section, and the count of a teacher the
\* number of approved notes of the window to that teacher; weights play no part.
C9_ReceiverCountsAreNumbers ==
    page.kind = "home.html" =>
        \A w \in Windows :
            /\ Keys(page.leader[w][2].app_sec) \subseteq SectionIds
            /\ \A S \in SectionIds :
                  DictGet(page.leader[w][2].app_sec, S, 0)
                    = Cardinality({i \in Counted(w) : AppreciatedKey(notes[i]) = S})
            /\ Keys(page.leader[w][2].top_t) \subseteq TeacherIds
            /\ \A T \in TeacherIds :
                  DictGet(page.leader[w][2].top_t, T, 0)
                    = Cardinality({i \in Counted(w) : TeacherKey(notes[i]) = T})

\* one approved cross-section note of weight 2 is all section 2 received: its count is 1
C9_Witness ==
    /\ page.kind = "home.html"
    /\ DictGet(page.leader[4][2].app_sec, 2, 0) = 1
    /\ \E i \in Counted(4) : AppreciatedKey(notes[i]) = 2 /\ notes[i].weight_applied = 2
    /\ DictGet(page.leader[4][2].top_t, 1, 0) = 1

\* the place in the query result q (note ids) of the first note counted under key k
FirstSeen(q, Key(_), k) ==
    CHOOSE i \in 1..Len(q) :
        /\ Key(Row(notes, q[i])) = k
        /\ \A j \in 1..(i - 1) : Key(Row(notes, q[j])) # k

\* best is the winner of the mapping d built from the query result q
IsWinner(best, d, q, Key(_)) ==
    IF Len(d) = 0 THEN best = <<>>
    ELSE /\ Len(best) = 1
         /\ \E j \in 1..Len(d) : d[j] = best[1]
         /\ \A j \in 1..Len(d) : d[j][2] <= best[1][2]
         /\ \A j \in 1..Len(d) :
               d[j][2] = best[1][2] => FirstSeen(q, Key, best[1][1]) <= FirstSeen(q, Key, d[j][1])

\* C10: the winner of a non-empty mapping of compute_leaders is an entry whose count
\* no other entry exceeds, and among the entries with that count it is the one whose
\* key comes first among the notes.
C10_WinnerIsFirstMaximum ==
    page.kind = "home.html" =>
        \A w \in Windows :
            LET r == page.leader[w][2]
            IN  /\ IsWinner(r.best_app_sec, r.app_sec, r.q, AppreciatedKey)
                /\ IsWinner(r.best_appr_sec, r.appr_sec, r.q, AppreciatorKey)
                /\ IsWinner(r.best_teacher, r.top_t, r.q, TeacherKey)

\* teachers 2 and 1 are tied and teacher 2, whose note came first, wins
C10_Witness ==
    /\ page.kind = "home.html"
    /\ page.leader[4][2].top_t = << <<2, 1>>, <<1, 1>> >>
    /\ page.leader[4][2].best_teacher = << <<2, 1>> >>


----------------------------------------------------------------------------
(* Certificates: an unlocked admin session posts notes, approves them and asks *)
(* for certificates                                                            *)

\* receiver sections 1 and 2 are seeded rows; no section row has id 9
CertStudentForms ==
    { [giver_type |-> "student", giver_section_id |-> "1", receiver_name |-> "Rafi",
       receiver_section_id |-> r, message |-> "Thank you"] : r \in {"1", "2", "9"} }

CertTeacherForms ==
    { [giver_type |-> "student", giver_section_id |-> "1", teacher_id |-> t,
       message |-> "Thank you"] : t \in {"1", "2"} }

CertStaffForms ==
    { [giver_type |-> "student", giver_section_id |-> "1", staff_id |-> "1",
       message |-> "Thank you"] }

CertCategories == {"teacher", "staff", "student_section"}

PostStudentCert ==
    /\ NextId(notes) <= MaxNoteId
    /\ \E f \in CertStudentForms : post_student("POST", f)

PostTeacherCert ==
    /\ NextId(notes) <= MaxNoteId
    /\ \E f \in CertTeacherForms : post_teacher("POST", f)

PostStaffCert ==
    /\ NextId(notes) <= MaxNoteId
    /\ \E f \in CertStaffForms : post_staff("POST", f)

ApproveCert == \E nid \in NoteIds : admin_note_action(nid, "approve")

CertificateCert == \E c \in CertCategories, r \in 1..3 : certificate(c, r)

NextCert ==
    \/ PostStudentCert
    \/ PostTeacherCert
    \/ PostStaffCert
    \/ ApproveCert
    \/ CertificateCert

SpecCert == InitLeaders /\ [][NextCert]_vars

----------------------------------------------------------------------------
(* Properties of certificate (SpecCert) *)

\* the key an approved note is counted under in the mapping of a category (the name
\* of the teacher or staff member, the id of the section) as <<key>>, and <<>> when
\* the note is not counted
CertKey(n, category) ==
    IF n.status # "approved" THEN <<>>
    ELSE IF category = "teacher"
         THEN (IF n.receiver_type = "teacher" /\ TeacherKey(n) # None
                  /\ HasRow(teachers, n.receiver_teacher_id)
               THEN <<Row(teachers, n.receiver_teacher_id).name>> ELSE <<>>)
    ELSE IF category = "staff"
         THEN (IF n.receiver_type = "staff" /\ n.receiver_staff_id \notin {None, 0}
                  /\ HasRow(staffs, n.receiver_staff_id)
               THEN <<Row(staffs, n.receiver_staff_id).name>> ELSE <<>>)
    ELSE IF AppreciatedKey(n) # None THEN <<AppreciatedKey(n)>> ELSE <<>>

\* the labels printed for the entry k: its name, or the label of its section row
CertLabels(category, k) ==
    IF category \in {"teacher", "staff"} THEN {k[1]}
    ELSE {label(sections[i]) : i \in {j \in 1..Len(sections) : sections[j].id = k[1]}}

\* the distinct entries of the all-time count mapping of a category
CertEntries(category) ==
    {CertKey(notes[i], category) : i \in 1..Len(notes)} \ {<<>>}

CertCount(category, k) ==
    Cardinality({i \in 1..Len(notes) : CertKey(notes[i], category) = k})

\* the entries that can stand at place rank when the entries are put in descending
\* order of count
CertRanked(category, rank) ==
    {k \in CertEntries(category) :
        /\ Cardinality({j \in CertEntries(category) :
                           CertCount(category, j) > CertCount(category, k)}) < rank
        /\ Cardinality({j \in CertEntries(category) :
                           CertCount(category, j) >= CertCount(category, k)}) >= rank}

\* C11: for every category and rank in 1..3, certificate renders the certificate of an
\* entry ranked rank-th by all-time approved count when the category's mapping has at
\* least rank entries, and redirects to leaders when it has fewer.
C11_CertificateWhenEnoughEntries ==
    [][\A c \in CertCategories, r \in 1..3 :
          (~require_unlock("certificate") /\ certificate(c, r)) =>
              IF Cardinality(CertEntries(c)) >= r
              THEN /\ page'.kind = "certificate.html"
                   /\ page'.category = c
                   /\ page'.rank = r
                   /\ \E k \in CertRanked(c, r) : page'.label \in CertLabels(c, k)
              ELSE page' = Redirect("leaders")]_vars


----------------------------------------------------------------------------
(* Moderation over time: an unlocked admin session posts, approves, hides, *)
(* unhides and deletes notes while the clock advances                      *)

Moderate == \E nid \in 1..MaxLeaderNotes, a \in Actions : admin_note_action(nid, a)

Delete == \E nid \in 1..MaxLeaderNotes : admin_delete(nid)

NextModerate ==
    \/ PostStudentLeaders
    \/ PostTeacherLeaders
    \/ Moderate
    \/ Delete
    \/ home
    \/ wall
    \/ Tick

SpecModerate == InitLeaders /\ [][NextModerate]_vars

----------------------------------------------------------------------------
(* Properties of the note store under moderation (SpecModerate) *)

\* the ids of the notes at the positions I of the note table
IdsAt(I) == {notes[i].id : i \in I}

\* the ids a sequence lists
Listed(q) == {q[i] : i \in 1..Len(q)}

\* C12: compute_leaders keeps no state: a home request leaves every table as it was,
\* and whatever was submitted, approved, hidden or deleted before, its result is the
\* one computed from the note table and the clock as they are now; a note that is
\* hidden or no longer stored is in no window.
C12_ComputeLeadersStateless ==
    /\ [][page'.kind = "home.html" =>
            /\ notes' = notes
            /\ tables' = tables
            /\ now' = now]_vars
    /\ [](page.kind = "home.html" =>
            /\ page.leader = compute_leaders(notes)
            /\ \A w \in Windows :
                  /\ Listed(page.leader[w][2].q) = IdsAt(Counted(w))
                  /\ Len(page.leader[w][2].q) = Cardinality(Counted(w))
                  /\ \A S \in SectionIds :
                        DictGet(page.leader[w][2].app_sec, S, 0)
                          = Cardinality({i \in Counted(w) : AppreciatedKey(notes[i]) = S}))

\* home is computed later than a note was posted; that note is hidden now and in no
\* window, and the other note is counted
C12_Witness ==
    /\ page.kind = "home.html"
    /\ now > 1
    /\ Len(notes) = 2
    /\ notes[1].status = "hidden" /\ notes[1].created_at < Ordinal(utcnow)
    /\ notes[2].status = "approved"
    /\ page.leader[4][2].q = <<notes[2].id>>


Statuses == {"pending", "approved", "hidden"}

\* C13: every stored note has status pending, approved or hidden, and an
\* admin_note_action request whose action is none of approve, hide and unhide leaves
\* the status of every note as it was.
C13_StatusValues ==
    /\ [](\A i \in 1..Len(notes) : notes[i].status \in Statuses)
    /\ [][\A nid \in 1..MaxLeaderNotes, a \in Actions \ {"approve", "hide", "unhide"} :
             admin_note_action(nid, a) => notes' = notes]_vars

\* after an admin request, one note is hidden and the other approved
C13_Witness ==
    /\ page = Redirect("admin_panel")
    /\ Len(notes) = 2
    /\ notes[1].status = "hidden"
    /\ notes[2].status = "approved"


----------------------------------------------------------------------------
(* The three post forms: an unlocked session submits forms whose fields are *)
(* present, blank, padded or unexpected                                     *)

\* the giver fields a form can carry: the choices of the page, a hand-written
\* giver_type, a padded one, and a form without the field
GiverFields ==
    { [giver_type |-> "student", giver_name |-> "", giver_section_id |-> "1"],
      [giver_type |-> "student", giver_name |-> "Rafi", giver_section_id |-> ""],
      [giver_type |-> "teacher", giver_name |-> "Mr. Kabir", giver_section_id |-> "1"],
      [giver_type |-> "teacher", giver_name |-> " ", giver_section_id |-> ""],
      [giver_type |-> " teacher ", giver_name |-> "Mr. Kabir", giver_section_id |-> ""],
      [giver_type |-> "staff", giver_name |-> "", giver_section_id |-> ""],
      [giver_name |-> "", giver_section_id |-> "1"] }

\* the form g with the fields of the record more added
With(g, more) ==
    [k \in (DOMAIN g) \cup (DOMAIN more) |-> IF k \in DOMAIN more THEN more[k] ELSE g[k]]

\* giver fields that pass the checks of the giver
GoodGivers == {g \in GiverFields : "giver_type" \in DOMAIN g /\ g.giver_section_id = "1"}

FormsToStudent ==
    { With(g, [receiver_name |-> "Rafi", receiver_section_id |-> r, message |-> "Thank you"]) :
        g \in GiverFields, r \in {"1", "2"} }
    \cup { With(g, [receiver_name |-> "Rafi", receiver_section_id |-> "2", message |-> " "]) :
             g \in GoodGivers }
    \cup { With(g, [receiver_name |-> " ", receiver_section_id |-> "2", message |-> "Thank you"]) :
             g \in GoodGivers }
    \cup { With(g, [receiver_name |-> "Rafi", message |-> "Thank you"]) : g \in GoodGivers }

FormsToTeacher ==
    { With(g, [teacher_id |-> "1", message |-> "Thank you"]) : g \in GiverFields }
    \cup { With(g, [teacher_id |-> "1", message |-> " "]) : g \in GoodGivers }
    \cup { With(g, [teacher_id |-> "", message |-> "Thank you"]) : g \in GoodGivers }

FormsToStaff ==
    { With(g, [staff_id |-> "1", message |-> "Thank you"]) : g \in GiverFields }
    \cup { With(g, [staff_id |-> "1", message |-> ""]) : g \in GoodGivers }
    \cup { With(g, [message |-> "Thank you"]) : g \in GoodGivers }

SubmitToStudent ==
    /\ NextId(notes) <= MaxPosted
    /\ \E f \in FormsToStudent : post_student("POST", f)

SubmitToTeacher ==
    /\ NextId(notes) <= MaxPosted
    /\ \E f \in FormsToTeacher : post_teacher("POST", f)

SubmitToStaff ==
    /\ NextId(notes) <= MaxPosted
    /\ \E f \in FormsToStaff : post_staff("POST", f)

NextForms ==
    \/ SubmitToStudent
    \/ SubmitToTeacher
    \/ SubmitToStaff

SpecForms == InitPost /\ [][NextForms]_vars

----------------------------------------------------------------------------
(* Properties of the stored notes (SpecForms) *)

\* C14: every note stored by post_student, post_teacher or post_staff has giver_type
\* student or teacher, whatever giver_type the submitted form carried.
C14_GiverTypeValues ==
    \A i \in 1..Len(notes) : notes[i].giver_type \in {"student", "teacher"}


\* C15: every stored note has weight_applied 1 or 2; the weight is 2 only when a student
\* gives to a student; notes to teachers or staff and notes given by teachers have
\* weight 1.
C15_WeightValues ==
    \A i \in 1..Len(notes) :
        /\ notes[i].weight_applied \in {1, 2}
        /\ notes[i].weight_applied = 2 =>
              (notes[i].giver_type = "student" /\ notes[i].receiver_type = "student")
        /\ notes[i].receiver_type \in {"teacher", "staff"} => notes[i].weight_applied = 1
        /\ notes[i].giver_type = "teacher" => notes[i].weight_applied = 1

\* a student's note to a student of another section has weight 2, and a teacher's note
\* from section 1 to a student of section 2 has weight 1
C15_Witness ==
    /\ Len(notes) = 2
    /\ notes[1].giver_type = "student" /\ notes[1].receiver_type = "student"
    /\ notes[1].weight_applied = 2
    /\ notes[2].giver_type = "teacher" /\ notes[2].receiver_type = "student"
    /\ notes[2].giver_section_id = 1 /\ notes[2].receiver_section_id = 2
    /\ notes[2].weight_applied = 1

\* the value of the field k of a form, "" when the form has no such field
Field(f, k) == IF k \in DOMAIN f THEN f[k] ELSE ""

\* the text is empty once trimmed
Blank(x) == \A i \in 1..Len(x) : SubSeq(x, i, i) = " "

\* the giver of the form is of type t; a form without the field is a student's
GiverIs(f, t) == Strip(IF "giver_type" \in DOMAIN f THEN f.giver_type ELSE "student") = t

\* a teacher giver without a name, or a student giver without a giver section
BadGiver(f) ==
    \/ GiverIs(f, "teacher") /\ Blank(Field(f, "giver_name"))
    \/ GiverIs(f, "student") /\ Field(f, "giver_section_id") = ""

\* C19: a submission that fails validation (teacher giver without a name, student giver
\* without a giver section, missing receiver name, section, teacher or staff member, or
\* a message that is empty once trimmed) leaves the notes as they were and is sent
\* back to its form.
C19_RejectedStoresNothing ==
    [][/\ (\A f \in FormsToStudent :
             (/\ post_student("POST", f)
              /\ \/ BadGiver(f)
                 \/ Blank(Field(f, "receiver_name"))
                 \/ Field(f, "receiver_section_id") = ""
                 \/ Blank(Field(f, "message")))
             => (notes' = notes /\ page' = Redirect("post_student")))
        /\ (\A g \in FormsToTeacher :
             (/\ post_teacher("POST", g)
              /\ \/ BadGiver(g)
                 \/ Field(g, "teacher_id") = ""
                 \/ Blank(Field(g, "message")))
             => (notes' = notes /\ page' = Redirect("post_teacher")))
        /\ (\A h \in FormsToStaff :
             (/\ post_staff("POST", h)
              /\ \/ BadGiver(h)
                 \/ Field(h, "staff_id") = ""
                 \/ Blank(Field(h, "message")))
             => (notes' = notes /\ page' = Redirect("post_staff")))]_vars

\* a submission was sent back to the teacher form while one note is stored
C19_Witness ==
    /\ page = Redirect("post_teacher")
    /\ Len(notes) = 1
    /\ NextId(notes) <= MaxPosted


----------------------------------------------------------------------------
(* Sections: an unlocked admin session submits section and teacher forms, two *)
(* requests at a time, and the application is restarted                       *)

SectionForms ==
    { [form |-> "section", class_name |-> c, section_name |-> s] :
        c \in {"6", " 9"}, s \in {"a", "C", ""} }
    \cup { [form |-> "teacher", teacher_name |-> "Mr. Rahman", teacher_subject |-> t] :
             t \in {"Mathematics", "Physics"} }

AdminPanel ==
    /\ Len(sections) < MaxSectionRows
    /\ Len(teachers) <= Len(default_teachers)
    /\ \E r \in Requests, m \in Methods, f \in SectionForms : admin_panel(r, m, f)

AdminPanelCommit == \E r \in Requests : admin_panel_commit(r)

NextSections ==
    \/ AdminPanel
    \/ AdminPanelCommit
    \/ create_app

SpecSections == InitLeaders /\ [][NextSections]_vars

----------------------------------------------------------------------------
(* Properties of the section table (SpecSections) *)

\* C16: whatever start-ups and section forms came before, two of them interleaved
\* included, no two rows of class_section hold the same (class_name, section_name), and
\* a step adds at most one row, whose pair no row held.
C16_SectionPairsUnique ==
    /\ [](\A i, j \in 1..Len(sections) :
             (sections[i].class_name = sections[j].class_name
              /\ sections[i].section_name = sections[j].section_name) => i = j)
    /\ [][sections' # sections =>
            /\ Len(sections') = Len(sections) + 1
            /\ SubSeq(sections', 1, Len(sections)) = sections
            /\ ~\E i \in 1..Len(sections) :
                  /\ sections[i].class_name = sections'[Len(sections')].class_name
                  /\ sections[i].section_name = sections'[Len(sections')].section_name]_vars

\* two requests found the pair 9-A missing; one has inserted it, and the insert of the
\* other has just been refused
C16_Witness ==
    /\ page = ServerError
    /\ Len(sections) = Len(default_sections) + 1
    /\ sections[Len(sections)].class_name = "9"
    /\ sections[Len(sections)].section_name = "A"
    /\ inflight = NoRequests
    /\ running = <<>>


----------------------------------------------------------------------------
(* Properties of the admin gate (Spec) *)

\* the session carries the flag k with the value True
Flag(k) == k \in DOMAIN session /\ session[k] = TRUE

ModeratingActions == {"approve", "hide", "unhide"}

\* the step serves a moderation request (approve, hide, unhide or delete) on note nid
ModerationRequest(nid) ==
    \/ \E a \in ModeratingActions : admin_note_action(nid, a)
    \/ admin_delete(nid)

\* C17: a request to approve, hide, unhide or delete a note from a session whose admin_ok
\* flag is not True changes no note's status, deletes no note, and is redirected to
\* admin_login.
C17_NonAdminSentToLogin ==
    [][\A nid \in NoteIds :
          (~Flag("admin_ok") /\ ModerationRequest(nid)) =>
              (notes' = notes /\ page' = Redirect("admin_login"))]_vars

\* C17, with the lock screen: a request to approve, hide, unhide or delete a note from a
\* session whose admin_ok flag is not True changes no note's status and deletes no
\* note; it is redirected to admin_login when the session is unlocked or logged in, and
\* to lock otherwise.
C17_NonAdminChangesNothing ==
    [][\A nid \in NoteIds :
          (~Flag("admin_ok") /\ ModerationRequest(nid)) =>
              /\ notes' = notes
              /\ page' = IF Flag("unlocked") \/ current_user
                         THEN Redirect("admin_login") ELSE Redirect("lock")]_vars

\* a note was approved by the admin; the session is no longer the admin's, and its
\* moderation request has been sent to admin_login
C17_Witness ==
    /\ page = Redirect("admin_login")
    /\ ~Flag("admin_ok")
    /\ \E i \in 1..Len(notes) : notes[i].status = "approved"


----------------------------------------------------------------------------
(* Properties of the moderation of a note (SpecModerate) *)

NoteIdsOf(rows) == {rows[i].id : i \in 1..Len(rows)}

\* the status of the stored note id
StatusOf(rows, id) == rows[CHOOSE i \in 1..Len(rows) : rows[i].id = id].status

\* the notes a page shows or counts
ShownOn(p) ==
    IF p.kind = "wall.html" THEN Listed(p.notes)
    ELSE IF p.kind = "home.html"
         THEN Listed(p.recent) \cup UNION {Listed(p.leader[w][2].q) : w \in 1..Len(p.leader)}
    ELSE {}

\* C18: a note created by a post handler starts pending; a note becomes approved only
\* by an admin's approve or unhide request on it; and the wall and the leaderboards
\* show and count only notes that are stored and approved, so none that was not
\* approved or unhidden before, or was hidden or deleted since.
C18_ShownOnlyAfterApproval ==
    /\ [](\A id \in ShownOn(page) :
             id \in NoteIdsOf(notes) /\ StatusOf(notes, id) = "approved")
    /\ [][/\ \A id \in NoteIdsOf(notes') \ NoteIdsOf(notes) :
                StatusOf(notes', id) = "pending"
          /\ \A id \in NoteIdsOf(notes') \cap NoteIdsOf(notes) :
                (StatusOf(notes', id) = "approved" /\ StatusOf(notes, id) # "approved") =>
                    /\ Flag("admin_ok")
                    /\ \E a \in {"approve", "unhide"} : admin_note_action(id, a)]_vars

\* the wall shows the approved note and not the pending one
C18_Witness ==
    /\ page.kind = "wall.html"
    /\ Len(notes) = 2
    /\ notes[1].status = "pending"
    /\ notes[2].status = "approved"
    /\ page.notes = <<notes[2].id>>

\* C20: a note that is approved or hidden is never pending again: after any step it is
\* approved, hidden or deleted. The admin's hide makes a note hidden and unhide makes it
\* approved whatever its status, pending included.
C20_NeverPendingAgain ==
    [][/\ \A id \in NoteIdsOf(notes) :
             StatusOf(notes, id) # "pending" =>
                 (id \notin NoteIdsOf(notes') \/ StatusOf(notes', id) \in {"approved", "hidden"})
       /\ \A id \in NoteIdsOf(notes) :
             /\ (Flag("admin_ok") /\ admin_note_action(id, "hide"))
                   => StatusOf(notes', id) = "hidden"
             /\ (Flag("admin_ok") /\ admin_note_action(id, "unhide"))
                   => StatusOf(notes', id) = "approved"]_vars

\* one note is hidden and the other still pending after an admin request
C20_Witness ==
    /\ page = Redirect("admin_panel")
    /\ Len(notes) = 2
    /\ notes[1].status = "pending"
    /\ notes[2].status = "hidden"


----------------------------------------------------------------------------
(* Properties of the lock gate and of the session flags (Spec) *)

\* the step serves a request to an endpoint other than auth_login, auth_register,
\* auth_logout and lock
GatedRequest ==
    \/ \E m \in Methods, f \in StudentForms : post_student(m, f)
    \/ \E m \in Methods, f \in TeacherForms : post_teacher(m, f)
    \/ \E m \in Methods, f \in StaffForms : post_staff(m, f)
    \/ home
    \/ wall
    \/ leaders
    \/ \E c \in Categories, r \in Ranks : certificate(c, r)
    \/ \E nid \in NoteIds, a \in Actions : admin_note_action(nid, a)
    \/ \E nid \in NoteIds : admin_delete(nid)
    \/ \E m \in Methods, pin \in Pins : admin_login(m, pin)
    \/ admin_logout

\* the session has a logged-in user
LoggedIn ==
    /\ "uid" \in DOMAIN session
    /\ \E i \in 1..Len(users) : users[i].id = session["uid"]

\* C21: a request to an endpoint other than auth_login, auth_register, auth_logout and
\* lock from a session with no logged-in user and whose unlocked flag is not True is
\* redirected to lock and never reaches its handler: no note is created, changed or
\* deleted, no table and no session flag changes, no page is computed; the admin
\* endpoints are no exception.
C21_LockGate ==
    [][(~LoggedIn /\ ~Flag("unlocked") /\ GatedRequest) =>
          /\ page' = Redirect("lock")
          /\ notes' = notes
          /\ tables' = tables
          /\ session' = session]_vars

\* a session that holds admin_ok but is locked again was sent to the lock screen while
\* a note is stored
C21_Witness ==
    /\ page = Redirect("lock")
    /\ Flag("admin_ok")
    /\ ~Flag("unlocked")
    /\ Len(notes) > 0

----------------------------------------------------------------------------
(* Accounts and session flags: one browser session registers, signs in and  *)
(* out, unlocks, logs in and out as admin, posts notes and moderates them    *)

RegisterForms ==
    { [role |-> "student", name |-> "Rafi", username |-> " Rafi ", password |-> "pw",
       class_section_id |-> "1"],
      [role |-> "teacher", name |-> "Ms. Ayesha", username |-> "AYESHA",
       password |-> "pw2"],
      [role |-> "admin", name |-> "Rafi", username |-> "root", password |-> "pw"],
      [role |-> "staff", name |-> "Anwar", username |-> "anwar", password |-> ""] }

LoginForms ==
    { [username |-> "RAFI", password |-> "pw"],
      [username |-> "rafi", password |-> "Pw"],
      [username |-> "ayesha ", password |-> "pw2", remember |-> "1"] }

SessionForms ==
    { [giver_type |-> "student", giver_section_id |-> "1", teacher_id |-> "1",
       message |-> "Thank you"] }

InitSession == Init

AuthRegister ==
    /\ Len(users) < MaxUsers
    /\ \E m \in Methods, f \in RegisterForms : auth_register(m, f)

AuthLogin == \E m \in Methods, f \in LoginForms : auth_login(m, f)

PostSession ==
    /\ NextId(notes) <= MaxNoteId
    /\ \E f \in SessionForms : post_teacher("POST", f)

ModerateSession ==
    \E nid \in NoteIds, a \in {"approve", "hide"} : admin_note_action(nid, a)

NextSession ==
    \/ AuthRegister
    \/ AuthLogin
    \/ auth_logout
    \/ Lock
    \/ AdminLogin
    \/ admin_logout
    \/ PostSession
    \/ ModerateSession

SpecSession == InitSession /\ [][NextSession]_vars

----------------------------------------------------------------------------
(* Properties of the session flags (SpecSession) *)

\* the request passes the lock gate
Unlocked == LoggedIn \/ Flag("unlocked")

\* C22: admin_ok becomes True only in an admin_login POST that carries pin = ADMIN_PIN
\* (and passes the lock gate), and it is no longer set once the admin_logout handler
\* has run; an admin_login with a wrong PIN leaves the whole session unchanged.
C22_AdminOnlyByPin ==
    [][/\ (~Flag("admin_ok") /\ Flag("admin_ok")')
             => (Unlocked /\ admin_login("POST", ADMIN_PIN))
       /\ ("admin_ok" \in DOMAIN session' /\ "admin_ok" \in DOMAIN session)
             => session'["admin_ok"] = session["admin_ok"]
       /\ (Unlocked /\ admin_logout) => "admin_ok" \notin DOMAIN session'
       /\ (\A m \in Methods, pin \in Pins :
              (pin # ADMIN_PIN /\ admin_login(m, pin)) => session' = session)]_vars

\* a signed-in user has just logged in as admin
C22_Witness ==
    /\ page = Redirect("admin_panel")
    /\ Flag("admin_ok")
    /\ LoggedIn
    /\ Len(notes) = 0

\* C23: admin_logout clears every session flag; auth_logout removes uid and sets
\* unlocked to False but leaves admin_ok as it was, so that a session that was admin
\* before auth_logout keeps admin_ok through the next unlock and its moderation
\* requests then act on the notes, with no PIN entered again.
C23_LogoutFrames ==
    [][/\ (Unlocked /\ admin_logout) => session' = EmptySession
       /\ auth_logout =>
             /\ "uid" \notin DOMAIN session'
             /\ "unlocked" \in DOMAIN session' /\ session'["unlocked"] = FALSE
             /\ ("admin_ok" \in DOMAIN session') = ("admin_ok" \in DOMAIN session)
             /\ Flag("admin_ok")' = Flag("admin_ok")
       /\ (Flag("admin_ok") /\ ~Unlocked /\ lock("POST"))
             => (Flag("admin_ok")' /\ Flag("unlocked")' /\ "uid" \notin DOMAIN session')
       /\ (\A nid \in NoteIdsOf(notes) :
              (Flag("admin_ok") /\ Flag("unlocked") /\ ~LoggedIn
                 /\ admin_note_action(nid, "approve"))
                 => StatusOf(notes', nid) = "approved")]_vars

\* an admin session of a signed-in user has just signed out: uid is gone, unlocked is
\* False, admin_ok is still True, and a note waits for moderation
C23_Witness ==
    /\ page = Redirect("home")
    /\ Flag("admin_ok")
    /\ "uid" \notin DOMAIN session
    /\ "unlocked" \in DOMAIN session /\ session["unlocked"] = FALSE
    /\ Len(users) > 0
    /\ \E i \in 1..Len(notes) : notes[i].status = "pending"

----------------------------------------------------------------------------
(* The bar charts of wall and leaders (SpecModerate) *)

\* C24: for the same note store, the bars that wall computes (from the 200 most recent
\* approved notes, newest first) equal the bars that leaders computes (from all
\* approved notes), for every category.
C24_WallBarsEqualLeadersBars ==
    page.kind = "wall.html" => page.bars = LeadersPage(notes).bars

----------------------------------------------------------------------------
(* Teachers of one name: the admin adds a second Mr. Rahman, notes to the   *)
(* teachers are posted and approved, certificates and leaders are requested   *)

NamesakeForm ==
    [form |-> "teacher", teacher_name |-> " Mr. Rahman", teacher_subject |-> "Physics"]

NamesakeTeacherForms ==
    { [giver_type |-> "student", giver_section_id |-> "1", teacher_id |-> t,
       message |-> "Thank you"] : t \in {"1", "2", "5"} }

AddNamesake == \E r \in Requests : admin_panel(r, "POST", NamesakeForm)

PostNamesake ==
    /\ NextId(notes) <= MaxNoteId
    /\ \E f \in NamesakeTeacherForms : post_teacher("POST", f)

CertificateTeacher == \E r \in 1..3 : certificate("teacher", r)

NextTeachers ==
    \/ AddNamesake
    \/ PostNamesake
    \/ ApproveCert
    \/ CertificateTeacher
    \/ leaders

SpecTeachers == InitLeaders /\ [][NextTeachers]_vars

----------------------------------------------------------------------------
(* Properties of the teacher certificate (SpecTeachers) *)

\* every note to a teacher refers to a teacher that is stored
TeachersStored ==
    \A i \in 1..Len(notes) :
        notes[i].receiver_type = "teacher" => receiver_teacher(notes[i]) # <<>>

\* C25: for every rank in 1..3, when the top_teachers list of leaders (one entry per
\* teacher id) has an entry at that rank, the teacher certificate of the rank is
\* rendered and names that teacher, also when two teachers have one name.
C25_CertificateNamesTopTeacher ==
    [][\A r \in 1..3 :
          LET top == LeadersPage(notes).top_teachers
          IN  (Flag("unlocked") /\ certificate("teacher", r) /\ TeachersStored
                 /\ Len(top) >= r)
                 => /\ page'.kind = "certificate.html"
                    /\ page'.label = Row(teachers, top[r][1]).name]_vars

----------------------------------------------------------------------------
(* Properties of the deletion of notes (SpecModerate) *)

\* the ids of the notes that the pages computed from rows list or count
ShownFor(rows) ==
    ShownOn(WallPage(rows)) \cup ShownOn(HomePage(rows))
        \cup Listed(LeadersPage(rows).approved)

\* C26: admin_delete by an admin session removes exactly the note with the given id
\* and leaves every other note, its fields and its status, unchanged and in place;
\* the pages computed afterwards neither list nor count the note, and every note a
\* page shows is a stored one; admin_delete of an id that no note has leaves the
\* note store unchanged.
C26_DeleteRemovesOneNote ==
    /\ [](\A id \in ShownOn(page) : id \in NoteIdsOf(notes))
    /\ [][\A nid \in 1..MaxLeaderNotes :
             (Flag("admin_ok") /\ Flag("unlocked") /\ admin_delete(nid)) =>
                 /\ NoteIdsOf(notes') = NoteIdsOf(notes) \ {nid}
                 /\ Len(notes') = Cardinality(NoteIdsOf(notes'))
                 /\ \A i \in 1..Len(notes), j \in 1..Len(notes') :
                       notes[i].id = notes'[j].id => notes[i] = notes'[j]
                 /\ \A j \in 1..(Len(notes') - 1) : notes'[j].id < notes'[j + 1].id
                 /\ nid \notin ShownFor(notes')
                 /\ (nid \notin NoteIdsOf(notes) => notes' = notes)]_vars

\* the first note has been deleted and the second one, approved, is still stored
C26_Witness ==
    /\ page = Redirect("admin_panel")
    /\ Len(notes) = 1
    /\ notes[1].id = 2
    /\ notes[1].status = "approved"

----------------------------------------------------------------------------
(* The home page beside moderation: one home() request runs query by query   *)
(* while the admin's requests approve, hide and delete notes                  *)

WindowForms ==
    { [giver_type |-> "student", giver_section_id |-> "2", teacher_id |-> "1",
       message |-> "Thank you"],
      [giver_type |-> "student", giver_section_id |-> "1", receiver_name |-> "Rafi",
       receiver_section_id |-> "2", message |-> "Thank you"] }

PostWindows ==
    /\ NextId(notes) <= MaxWindowNotes
    /\ \/ post_teacher("POST", CHOOSE f \in WindowForms : "teacher_id" \in DOMAIN f)
       \/ post_student("POST", CHOOSE f \in WindowForms : "receiver_name" \in DOMAIN f)

ModerateWindows ==
    \E nid \in 1..MaxWindowNotes, a \in {"approve", "hide"} : admin_note_action(nid, a)

DeleteWindows == \E nid \in 1..MaxWindowNotes : admin_delete(nid)

\* the clock as period_ranges read it once for the running request
TickIdle == running = <<>> /\ Tick

NextWindows ==
    \/ PostWindows
    \/ ModerateWindows
    \/ DeleteWindows
    \/ home_begin
    \/ home_query
    \/ home_render
    \/ TickIdle

SpecWindows == InitLeaders /\ [][NextWindows]_vars

----------------------------------------------------------------------------
(* Properties of the windows of one compute_leaders result *)

LeaderCategories == {"best_app_sec", "best_appr_sec", "best_teacher"}

\* the winning count of a category in the result of window w, 0 when there is no winner
WinningCount(leader, w, c) ==
    IF Len(leader[w][2][c]) = 0 THEN 0 ELSE leader[w][2][c][1][2]

\* the window of the result that has the name
WindowNamed(leader, name) == CHOOSE w \in 1..Len(leader) : leader[w][1] = name

\* C27: in the result of one compute_leaders invocation, for each category the winning
\* count of the all-time window is at least that of the yearly window, which is at
\* least that of the monthly window, and the all-time count is at least the weekly
\* one, also when approve, hide or delete requests are served between the queries of
\* the windows.
C27_WindowsNested ==
    page.kind = "home.html" =>
        \A c \in LeaderCategories :
            LET cnt(name) == WinningCount(page.leader, WindowNamed(page.leader, name), c)
            IN  /\ cnt("alltime") >= cnt("yearly")
                /\ cnt("yearly") >= cnt("monthly")
                /\ cnt("alltime") >= cnt("weekly")

====
